---- MODULE Spec2Model ----
(***************************************************************************)
(* A model of the discrete-event backtesting engine: the event loop        *)
(* (EventLoop::Impl), the market-data replayer registered with it as a     *)
(* Replayable, and the LP simulator's order executors that schedule their  *)
(* work on the loop.                                                       *)
(*                                                                         *)
(* Handlers are written as operators over a record S holding the whole     *)
(* program state, so that one action can chain every call a handler makes. *)
(* Times are integer nanoseconds.  Prices, quantities and positions are    *)
(* integers or NaN; derived values with fractions (fair prices, NOP) are   *)
(* exact rationals [n, d].                                                 *)
(***************************************************************************)
EXTENDS Integers, Sequences, FiniteSets, TLC

VARIABLES
    now,            \* m_now
    futureEvents,   \* m_futureEvents: set of TimedEvent records
    chores,         \* m_chores: FIFO of (eventId, event)
    replayables,    \* m_replayableDispatchers, each with its replayable's state
    activeCount,    \* m_activeReplayableDispatchersCount
    lastEventId,    \* m_lastEventId
    enable,         \* m_enable
    running,        \* TRUE while control is inside dispatch()
    dispatchCalls,  \* number of dispatch() calls made so far
    serial,         \* history: number of events ever queued
    dispatched,     \* history: the events run so far, with the time each observed
    userPosts,      \* history: postEvent calls made by callbacks and by main
    userStops,      \* history: stop calls made by callbacks and by main
    stopCalls,      \* history: stop(0) calls made by onReplayableDone
    attached,       \* TRUE once the strategy is attached behind the caches
    lastOrderId,    \* LPSim::Impl::m_lastOrderId
    executors,      \* LPSim::Impl::m_executors: <<symbol, observer>> -> executor state
    positions,      \* LPSim::Impl::m_positions: asset -> position
    settings,       \* LPSim::Impl::m_settings
    sent,           \* history: the sendOrder calls, in call order
    notifications,  \* history: onAck / onFill / onTerminated deliveries, in order
    consumers,      \* the DirectConsumer objects: name -> subscriber, entries, flag
    proxies,        \* the Proxy objects: name -> fan-out list and topic entries
    caches,         \* the CacheSubscriber objects of the positions fabric: name -> m_cache
    subscribing,    \* the user subscribers that subscribe when notified of a topic
    pubLog,         \* history: the calls made on consumers and on subscribers
    processed       \* history: what process() saw and decided for each order

vars == <<now, futureEvents, chores, replayables, activeCount, lastEventId,
          enable, running, dispatchCalls, serial, dispatched, userPosts,
          userStops, stopCalls, attached, lastOrderId, executors,
          positions, settings, sent, notifications, consumers, proxies,
          caches, subscribing, pubLog, processed>>

St == [now |-> now, futureEvents |-> futureEvents, chores |-> chores,
       replayables |-> replayables, activeCount |-> activeCount,
       lastEventId |-> lastEventId, enable |-> enable, running |-> running,
       dispatchCalls |-> dispatchCalls, serial |-> serial,
       dispatched |-> dispatched, userPosts |-> userPosts,
       userStops |-> userStops, stopCalls |-> stopCalls,
       attached |-> attached,
       lastOrderId |-> lastOrderId, executors |-> executors,
       positions |-> positions, settings |-> settings, sent |-> sent,
       notifications |-> notifications, consumers |-> consumers,
       proxies |-> proxies, caches |-> caches, subscribing |-> subscribing,
       pubLog |-> pubLog, processed |-> processed,
       script |-> <<>>]     \* the decisions the callbacks of this step will take

Become(S) ==
    /\ now' = S.now
    /\ futureEvents' = S.futureEvents
    /\ chores' = S.chores
    /\ replayables' = S.replayables
    /\ activeCount' = S.activeCount
    /\ lastEventId' = S.lastEventId
    /\ enable' = S.enable
    /\ running' = S.running
    /\ dispatchCalls' = S.dispatchCalls
    /\ serial' = S.serial
    /\ dispatched' = S.dispatched
    /\ userPosts' = S.userPosts
    /\ userStops' = S.userStops
    /\ stopCalls' = S.stopCalls
    /\ attached' = S.attached
    /\ lastOrderId' = S.lastOrderId
    /\ executors' = S.executors
    /\ positions' = S.positions
    /\ settings' = S.settings
    /\ sent' = S.sent
    /\ notifications' = S.notifications
    /\ consumers' = S.consumers
    /\ proxies' = S.proxies
    /\ caches' = S.caches
    /\ subscribing' = S.subscribing
    /\ pubLog' = S.pubLog
    /\ processed' = S.processed

----------------------------------------------------------------------------
(* Bounds of the model *)

MaxDelta == 1
MaxStopDelta == 1
MaxUserPosts == 3
MaxUserStops == 1
MaxCalls == 2
MaxReplayables == 1
MaxDispatches == 2

(* Program constants *)

TimestampMax == 2147483647
EventIdMax == 2147483647
MAX_REPLAYABLES == 4096

----------------------------------------------------------------------------
(* Helpers *)

SeqsUpTo(X, n) == UNION {[1..k -> X] : k \in 0..n}

Last(s) == s[Len(s)]

\* The dispatch step a call is made in: the index in `dispatched` of the event
\* whose callback is running, 0 when the call comes from outside dispatch().
CurrentStep(S) == IF S.running THEN Len(S.dispatched) ELSE 0

----------------------------------------------------------------------------
(* Event loop *)

getEventTime(S) == S.now

\* Mutant: the comparison of TimedEvent::operator< the other way round.
TimedEventLess_reversed(a, other) ==
    \/ a.expireTime < other.expireTime
    \/ a.expireTime = other.expireTime /\ a.eventId < other.eventId

\* Mutant: the comparison looks at the expiry times only.
TimedEventLess_timeOnly(a, other) == a.expireTime > other.expireTime

\* TimedEvent::operator< : the priority queue's top is a greatest element.
TimedEventLess(a, other) ==
    \/ a.expireTime > other.expireTime
    \/ a.expireTime = other.expireTime /\ a.eventId > other.eventId

\* m_futureEvents.top(): std::priority_queue leaves the choice among
\* equivalent elements open.
TopFuture(S) ==
    {e \in S.futureEvents : \A x \in S.futureEvents : ~TimedEventLess(e, x)}

addFutureEvent(S, ts, event, eventId) ==
    [S EXCEPT !.futureEvents = @ \cup
                  {[eventId |-> eventId, expireTime |-> ts, event |-> event,
                    serial |-> S.serial + 1, delta |-> ts - S.now,
                    postStep |-> CurrentStep(S), postTime |-> S.now]},
              !.serial = @ + 1]

postEvent(S, deltaTimeNs, event) ==
    LET eventId == S.lastEventId + 2
        S1 == [S EXCEPT !.lastEventId = eventId]
    IN IF deltaTimeNs = 0
       THEN [S1 EXCEPT !.chores = Append(@,
                           [eventId |-> eventId, event |-> event,
                            serial |-> S.serial + 1, delta |-> 0,
                            postStep |-> CurrentStep(S), postTime |-> S.now]),
                       !.serial = @ + 1]
       ELSE addFutureEvent(S1, getEventTime(S1) + deltaTimeNs, event, eventId + 1)

\* Mutant: the stop event takes the loop's last event id instead of the maximum.
stop_lastEventId(S, deltaTimeNs) ==
    addFutureEvent(S, getEventTime(S) + deltaTimeNs, [kind |-> "stop"],
                   S.lastEventId)

stop(S, deltaTimeNs) ==
    addFutureEvent(S, getEventTime(S) + deltaTimeNs, [kind |-> "stop"], EventIdMax)

onReplayableDone(S) ==
    LET S1 == [S EXCEPT !.activeCount = @ - 1]
    IN IF S1.activeCount = 0
       THEN stop([S1 EXCEPT !.stopCalls = @ + 1], 0)
       ELSE S1

----------------------------------------------------------------------------
(* Market-data replayer (a Replayable) *)

\* The lookahead before the first line is read.
InitialNextLine ==
    [timestamp |-> 0, symbol |-> <<>>,
     book |-> [bidSize |-> 0, bidPrice |-> 0, askSize |-> 0, askPrice |-> 0]]

getNextEventTime(R) == R.nextLine.timestamp

readNextLine(R) ==
    IF R.input # <<>>
    THEN [R EXCEPT !.nextLine = Head(R.input), !.input = Tail(@)]
    ELSE [R EXCEPT !.nextLine.timestamp = TimestampMax]

\* MarketDataReplayer::Impl::Impl, up to the eventLoop.add call.
NewReplayer(inputData) ==
    readNextLine([input |-> inputData, nextLine |-> InitialNextLine,
                  records |-> <<>>, published |-> <<>>, skipped |-> <<>>])

RECURSIVE skip(_, _)
RECURSIVE skip_inclusive(_, _)
\* Mutant: skip also discards the records stamped ts.
skip_inclusive(R, ts) ==
    IF getNextEventTime(R) <= ts
    THEN skip_inclusive([readNextLine(R) EXCEPT !.skipped = Append(@, R.nextLine)], ts)
    ELSE R

skip(R, ts) ==
    IF getNextEventTime(R) < ts
    THEN skip([readNextLine(R) EXCEPT !.skipped = Append(@, R.nextLine)], ts)
    ELSE R

----------------------------------------------------------------------------
(* Symbology and floating-point values *)

getBaseAsset(symbol) == SubSeq(symbol, 1, 3)

getQuoteAsset(symbol) == SubSeq(symbol, 5, 7)

\* Side::Buy = 1, Side::Sell = -1
Buy == 1
Sell == -1
sideToSign(side) == side

\* A double is an integer or NaN (quiet_NaN, encoded by a value no
\* computation of the model produces).
NaN == -1000000
IsNaN(x) == x = NaN

\* The significand of a double is finite: a result that needs more bits is
\* rounded to the nearest representable value, ties to the even significand.
\* The model's doubles carry MantissaBits bits, enough for every number of
\* the reference scenario to be exact.
MantissaBits == 20

\* The spacing of the representable values around the magnitude m
RECURSIVE Ulp(_, _)
Ulp(m, step) == IF m < (2 ^ MantissaBits) * step THEN step ELSE Ulp(m, 2 * step)

RoundTo(m, step) ==
    IF 2 * (m % step) < step \/ (2 * (m % step) = step /\ (m \div step) % 2 = 0)
    THEN (m \div step) * step
    ELSE (m \div step + 1) * step

\* The double nearest to the exact result x
Round(x) == IF x < 0 THEN 0 - RoundTo(0 - x, Ulp(0 - x, 1)) ELSE RoundTo(x, Ulp(x, 1))

FAdd(a, b) == IF IsNaN(a) \/ IsNaN(b) THEN NaN ELSE Round(a + b)
FSub(a, b) == IF IsNaN(a) \/ IsNaN(b) THEN NaN ELSE Round(a - b)
FMul(a, b) == IF IsNaN(a) \/ IsNaN(b) THEN NaN ELSE Round(a * b)
FNeg(a) == IF IsNaN(a) THEN NaN ELSE 0 - a
FLt(a, b) == ~IsNaN(a) /\ ~IsNaN(b) /\ a < b
FLe(a, b) == ~IsNaN(a) /\ ~IsNaN(b) /\ a <= b
\* std::min(a, b) is (b < a) ? b : a
FMin(a, b) == IF FLt(b, a) THEN b ELSE a

----------------------------------------------------------------------------
(* Publish/subscribe fabric: DirectConsumer, CacheSubscriber, Proxy.        *)
(* A consumer is [subscriber, entries, updates]; an entry is [callback,     *)
(* data]; pointers and std::function values are <<>> (null) or <<x>>.       *)

NullPtr == <<>>

\* The callback getCreateEntry installs: a lambda that does nothing.
NoOpCallback == [kind |-> "noop", owner |-> "", topic |-> <<>>]

\* The callback Proxy::notify subscribes with: onUpdate of its topic entry.
ProxyCallback(p, topic) == [kind |-> "proxy", owner |-> p, topic |-> topic]

\* A callback a user subscriber subscribes with.
UserCallback(who) == [kind |-> "user", owner |-> who, topic |-> <<>>]

\* History: a call made on a consumer or delivered to a subscriber, with
\* what the callee can observe at that moment.
Logged(S, op, who, topic, data) ==
    [S EXCEPT !.pubLog = Append(@,
        [op |-> op, who |-> who, topic |-> topic, data |-> data,
         step |-> CurrentStep(S), time |-> S.now,
         notes |-> Len(S.notifications), positions |-> S.positions,
         caches |-> S.caches,
         publishers |-> [p \in DOMAIN S.proxies |-> S.proxies[p].publishers]])]

RECURSIVE StrategyHook(_)
RECURSIVE Entry_publish(_, _, _)
RECURSIVE TopicEntry_onUpdate(_, _, _, _)
RECURSIVE DirectConsumer_createEntry(_, _, _, _)
RECURSIVE DirectConsumer_endBatch(_, _)
RECURSIVE Proxy_notifyPublishers(_, _, _, _, _)
RECURSIVE Proxy_endOfBatch(_, _, _)
RECURSIVE Proxy_addEntries(_, _, _, _, _)

\* DirectConsumer::getCreateEntry: a new entry gets the do-nothing lambda,
\* an existing one keeps its callback; the record is (re)bound.
getCreateEntry(S, c, topic, data) ==
    IF topic \in DOMAIN S.consumers[c].entries
    THEN [S EXCEPT !.consumers[c].entries[topic].data = <<data>>]
    ELSE [S EXCEPT !.consumers[c].entries =
              topic :> [callback |-> <<NoOpCallback>>, data |-> <<data>>] @@ @]

\* Mutant: subscribe creates missing entries only and keeps an existing callback.
DirectConsumer_subscribe_keep(S, c, topic, cb) ==
    IF topic \in DOMAIN S.consumers[c].entries
    THEN S
    ELSE [S EXCEPT !.consumers[c].entries =
              topic :> [callback |-> cb, data |-> NullPtr] @@ @]

\* DirectConsumer::subscribe; cb is <<>> for an empty std::function.
DirectConsumer_subscribe(S, c, topic, cb) ==
    IF topic \in DOMAIN S.consumers[c].entries
    THEN [S EXCEPT !.consumers[c].entries[topic].callback = cb]
    ELSE [S EXCEPT !.consumers[c].entries =
              topic :> [callback |-> cb, data |-> NullPtr] @@ @]

\* m_callback(m_topic, *m_data)
Callback_call(S, cb, topic, data) ==
    CASE cb.kind = "noop" -> S
      [] cb.kind = "proxy" -> TopicEntry_onUpdate(S, cb.owner, cb.topic, 1)
      [] cb.kind = "user" ->
           StrategyHook(Logged(S, "update", cb.owner, topic, data))

\* DirectConsumer::Entry::publish
Entry_publish(S, c, topic) ==
    LET e == S.consumers[c].entries[topic]
        S1 == Logged(S, "publish", c, topic, e.data)
    IN IF e.callback # NullPtr
       THEN [Callback_call(S1, e.callback[1], topic, e.data)
                EXCEPT !.consumers[c].updates = TRUE]
       ELSE S1

\* Proxy::TopicEntry::onUpdate, from the i-th downstream entry on.
TopicEntry_onUpdate(S, p, topic, i) ==
    LET entries == S.proxies[p].entries[topic].m_entries
    IN IF i > Len(entries)
       THEN S
       ELSE TopicEntry_onUpdate(
                Entry_publish(S, entries[i].consumer, entries[i].topic),
                p, topic, i + 1)

\* CacheSubscriber::notify
CacheSubscriber_notify(S, cache, topic, data) ==
    [S EXCEPT !.caches[cache] = topic :> data @@ @]

\* The loop of Proxy::notify over m_publishers, from the i-th publisher on.
Proxy_notifyPublishers(S, p, topic, data, i) ==
    IF i > Len(S.proxies[p].publishers)
    THEN S
    ELSE LET publisher == S.proxies[p].publishers[i]
             S1 == DirectConsumer_createEntry(S, publisher, topic, data)
             S2 == [S1 EXCEPT !.proxies[p].entries[topic].m_entries =
                        Append(@, [consumer |-> publisher, topic |-> topic])]
         IN Proxy_notifyPublishers(S2, p, topic, data, i + 1)

\* Mutant: notify creates the downstream entries of a known topic again.
Proxy_notify_repeat(S, p, c, topic, data) ==
    IF topic \in DOMAIN S.proxies[p].entries
    THEN Proxy_notifyPublishers(S, p, topic, data, 1)
    ELSE LET S1 == [S EXCEPT !.proxies[p].entries =
                        topic :> [record |-> data, m_entries |-> <<>>] @@ @]
             S2 == Proxy_notifyPublishers(S1, p, topic, data, 1)
         IN DirectConsumer_subscribe(S2, c, topic, <<ProxyCallback(p, topic)>>)

\* Proxy::notify
Proxy_notify(S, p, c, topic, data) ==
    IF topic \in DOMAIN S.proxies[p].entries
    THEN S
    ELSE LET S1 == [S EXCEPT !.proxies[p].entries =
                        topic :> [record |-> data, m_entries |-> <<>>] @@ @]
             S2 == Proxy_notifyPublishers(S1, p, topic, data, 1)
         IN DirectConsumer_subscribe(S2, c, topic, <<ProxyCallback(p, topic)>>)

\* A user subscriber's notify: it may subscribe to the topic, and act.
User_notify(S, who, c, topic, data) ==
    LET S1 == IF who \in S.subscribing
              THEN DirectConsumer_subscribe(S, c, topic, <<UserCallback(who)>>)
              ELSE S
    IN StrategyHook(S1)

\* m_subscriber.notify(*this, topic, data)
Subscriber_notify(S, sub, c, topic, data) ==
    LET S1 == Logged(S, "notify", sub.name, topic, <<data>>)
    IN CASE sub.kind = "cache" -> CacheSubscriber_notify(S1, sub.name, topic, data)
         [] sub.kind = "proxy" -> Proxy_notify(S1, sub.name, c, topic, data)
         [] sub.kind = "user" -> User_notify(S1, sub.name, c, topic, data)

\* DirectConsumer::createEntry
DirectConsumer_createEntry(S, c, topic, data) ==
    Subscriber_notify(
        getCreateEntry(Logged(S, "createEntry", c, topic, <<data>>), c, topic, data),
        S.consumers[c].subscriber, c, topic, data)

\* Mutant: endOfBatch ends the batch of the first publisher only.
Proxy_endOfBatch_first(S, p, i) ==
    IF i > 1 \/ i > Len(S.proxies[p].publishers)
    THEN S
    ELSE DirectConsumer_endBatch(S, S.proxies[p].publishers[i])

\* Proxy::endOfBatch, from the i-th publisher on.
Proxy_endOfBatch(S, p, i) ==
    IF i > Len(S.proxies[p].publishers)
    THEN S
    ELSE Proxy_endOfBatch(DirectConsumer_endBatch(S, S.proxies[p].publishers[i]),
                          p, i + 1)

\* m_subscriber.endOfBatch(*this)
Subscriber_endOfBatch(S, sub, c) ==
    LET S1 == Logged(S, "endOfBatch", sub.name, <<>>, NullPtr)
    IN CASE sub.kind = "cache" -> S1
         [] sub.kind = "proxy" -> Proxy_endOfBatch(S1, sub.name, 1)
         [] sub.kind = "user" -> StrategyHook(S1)

\* Mutant: endBatch reports to the subscriber whatever the flag says.
DirectConsumer_endBatch_always(S, c) ==
    Subscriber_endOfBatch(
        [Logged(S, "endBatch", c, <<>>, NullPtr) EXCEPT !.consumers[c].updates = FALSE],
        S.consumers[c].subscriber, c)

\* DirectConsumer::endBatch
DirectConsumer_endBatch(S, c) ==
    LET S1 == Logged(S, "endBatch", c, <<>>, NullPtr)
    IN IF S1.consumers[c].updates
       THEN Subscriber_endOfBatch([S1 EXCEPT !.consumers[c].updates = FALSE],
                                  S.consumers[c].subscriber, c)
       ELSE S1

\* Mutant: add creates no entry for the topics the proxy knows.
Proxy_addEntries_none(S, p, publisher, front, order) == S

\* Proxy::add over the known topics in the order the map is iterated.
Proxy_addEntries(S, p, publisher, front, order) ==
    IF order = <<>>
    THEN S
    ELSE LET topic == Head(order)
             S1 == DirectConsumer_createEntry(S, publisher, topic,
                                              S.proxies[p].entries[topic].record)
             pe == [consumer |-> publisher, topic |-> topic]
             S2 == [S1 EXCEPT !.proxies[p].entries[topic].m_entries =
                        IF front THEN <<pe>> \o @ ELSE Append(@, pe)]
         IN Proxy_addEntries(S2, p, publisher, front, Tail(order))

\* Mutant: add appends the publisher wherever it was asked to insert it.
Proxy_add_append(S, p, publisher, front, order) ==
    Proxy_addEntries([S EXCEPT !.proxies[p].publishers = Append(@, publisher)],
                     p, publisher, FALSE, order)

Proxy_add(S, p, publisher, front, order) ==
    Proxy_addEntries(
        [S EXCEPT !.proxies[p].publishers =
             IF front THEN <<publisher>> \o @ ELSE Append(@, publisher)],
        p, publisher, front, order)

addFront(S, p, publisher, order) == Proxy_add(S, p, publisher, TRUE, order)

addBack(S, p, publisher, order) == Proxy_add(S, p, publisher, FALSE, order)

\* The orders in which a set of topics can be iterated.
Orders(topics) ==
    {order \in [1..Cardinality(topics) -> topics] :
        \A i, j \in DOMAIN order : i # j => order[i] # order[j]}

\* The objects main wires for market data
MdPub == "mdPub"
MdProxy == "mdProxy"
MdCache == "mdCache"
MdCachePub == "mdCachePub"
MdStrategyPub == "mdStrategyPub"

\* The objects main wires for positions
PositionsPub == "positionsPub"
PositionsCachePub == "positionsCachePub"
StrategyPositionsPub == "strategyPositionsPub"
PositionsProxy == "positionsProxy"
PositionsCache == "positionsCache"

NewConsumer(kind, name) ==
    [subscriber |-> [kind |-> kind, name |-> name], entries |-> <<>>,
     updates |-> FALSE]

----------------------------------------------------------------------------
(* LP simulator: executors and order entry *)

\* Mutant: the counter is read without being incremented.
getNextOrderId_noIncrement(S) == S.lastOrderId

getNextOrderId(S) == S.lastOrderId + 1

\* CacheSubscriber::getCachedRecord: a pointer to the record, or nullptr (<<>>).
getCachedRecord(S, symbol) ==
    IF symbol \in DOMAIN S.caches[MdCache]
    THEN <<S.caches[MdCache][symbol]>>
    ELSE <<>>

\* LPSim::Impl::getPosition: m_positions[asset] creates the slot at 0.
getPosition(S, asset) ==
    IF asset \in DOMAIN S.positions
    THEN S
    ELSE [S EXCEPT !.positions = asset :> 0 @@ @]

\* LPSim::Impl::getPositionEntry; the record bound to the entry is the
\* asset's slot of m_positions.
getPositionEntry(S, asset) ==
    DirectConsumer_createEntry(getPosition(S, asset), PositionsPub, asset, asset)

\* ExecutorImpl::ExecutorImpl, the members in their order of declaration; id
\* stands for the address of the object that new returns.
createExecutor(S, symbol, observer) ==
    LET S1 == getPosition(getPosition(S, getBaseAsset(symbol)),
                          getQuoteAsset(symbol))
        S2 == getPositionEntry(getPositionEntry(S1, getBaseAsset(symbol)),
                               getQuoteAsset(symbol))
    IN [S2 EXCEPT !.executors =
            <<symbol, observer>> :>
                [book |-> <<>>, lastOrderSendTime |-> 0,
                 id |-> Cardinality(DOMAIN S2.executors) + 1] @@ @]

\* Mutant: every call constructs an executor for the pair.
getOrderSender_new(S, symbol, observer) == createExecutor(S, symbol, observer)

getOrderSender(S, symbol, observer) ==
    IF <<symbol, observer>> \in DOMAIN S.executors
    THEN S
    ELSE createExecutor(S, symbol, observer)

\* Mutant: the order is processed without the inbound delay.
sendOrder_noDelay(S, ex, side, price, qty, tif) ==
    LET S1 == IF S.executors[ex].book = <<>>
              THEN [S EXCEPT !.executors[ex].book = getCachedRecord(S, ex[1])]
              ELSE S
        orderId == getNextOrderId(S1)
        S2 == [S1 EXCEPT !.lastOrderId = orderId]
        order == [orderId |-> orderId, side |-> side, price |-> price,
                  qty |-> qty, tif |-> tif]
        S3 == postEvent(S2, 0, [kind |-> "process", ex |-> ex, order |-> order])
    IN [S3 EXCEPT !.sent = Append(@,
            [orderId |-> orderId, ex |-> ex, time |-> S.now,
             step |-> CurrentStep(S), logged |-> Len(S.pubLog)])]

\* ExecutorImpl::sendOrder; the returned id is recorded in `sent`.
sendOrder(S, ex, side, price, qty, tif) ==
    LET S1 == IF S.executors[ex].book = <<>>
              THEN [S EXCEPT !.executors[ex].book = getCachedRecord(S, ex[1])]
              ELSE S
        orderId == getNextOrderId(S1)
        S2 == [S1 EXCEPT !.lastOrderId = orderId]
        order == [orderId |-> orderId, side |-> side, price |-> price,
                  qty |-> qty, tif |-> tif]
        S3 == postEvent(S2, S2.settings.inboundDelay,
                        [kind |-> "process", ex |-> ex, order |-> order])
    IN [S3 EXCEPT !.sent = Append(@,
            [orderId |-> orderId, ex |-> ex, time |-> S.now,
             step |-> CurrentStep(S), logged |-> Len(S.pubLog)])]

----------------------------------------------------------------------------
(* Callbacks of main and of the strategy *)

\* One call a callback makes; the callbacks of a step take their calls from
\* S.script in order.
Call(S, c) ==
    CASE c.op = "post" ->
           postEvent([S EXCEPT !.userPosts = @ + 1], c.delta, [kind |-> "cb"])
      [] c.op = "stop" ->
           stop([S EXCEPT !.userStops = @ + 1], c.delta)
      [] c.op = "send" ->
           sendOrder(getOrderSender(S, c.symbol, c.observer),
                     <<c.symbol, c.observer>>, c.side, c.price, c.qty, c.tif)
      [] OTHER -> S

\* A callback of the strategy: it takes the next call of the script.  A call
\* may create an executor, whose position entries are announced to the
\* subscribers: callbacks can nest.
StrategyHook(S) ==
    IF S.attached /\ S.script # <<>>
    THEN Call([S EXCEPT !.script = Tail(@)], Head(S.script))
    ELSE S

\* MarketDataReplayer::Impl::publish
publish(S, r) ==
    LET R == S.replayables[r]
        nl == R.nextLine
        inserted == nl.symbol \notin DOMAIN R.records
        S1 == [S EXCEPT !.replayables[r].records = nl.symbol :> nl.book @@ @,
                        !.replayables[r].published =
                            Append(@, [timestamp |-> nl.timestamp,
                                       symbol |-> nl.symbol,
                                       book |-> nl.book,
                                       time |-> S.now])]
        S2 == IF inserted
              THEN DirectConsumer_createEntry(
                       S1, MdPub, nl.symbol, [owner |-> r, symbol |-> nl.symbol])
              ELSE S1
    IN Entry_publish(S2, MdPub, nl.symbol)

\* The do-while loop of dispatchNextEvent: publish, readNextLine, and again
\* while the lookahead has the batch's timestamp.
RECURSIVE publishBatch(_, _, _)
\* Mutant: the loop of dispatchNextEvent never repeats.
publishMore_once(S2, r, startTime) == S2

publishMore(S2, r, startTime) ==
    IF getNextEventTime(S2.replayables[r]) = startTime
    THEN publishBatch(S2, r, startTime)
    ELSE S2

publishBatch(S, r, startTime) ==
    publishMore([publish(S, r) EXCEPT !.replayables[r] = readNextLine(@)],
                r, startTime)

\* MarketDataReplayer::Impl::dispatchNextEvent
dispatchNextEvent(S, r) ==
    LET startTime == getNextEventTime(S.replayables[r])
    IN IF startTime < TimestampMax
       THEN DirectConsumer_endBatch(publishBatch(S, r, startTime), MdPub)
       ELSE S

----------------------------------------------------------------------------
(* ReplayableDispatcher *)

ReplayableDispatcher_postNextEvent(S, r) ==
    LET nowTs == getEventTime(S)
        next == getNextEventTime(S.replayables[r])
    IN IF next < TimestampMax
       THEN postEvent(S, IF next > nowTs THEN next - nowTs ELSE 0,
                      [kind |-> "replay", r |-> r])
       ELSE onReplayableDone(S)

ReplayableDispatcher_start(S, r) ==
    ReplayableDispatcher_postNextEvent(
        [S EXCEPT !.replayables[r] = skip(@, getEventTime(S))], r)

ReplayableDispatcher_dispatch(S, r) ==
    ReplayableDispatcher_postNextEvent(dispatchNextEvent(S, r), r)

\* EventLoop::Impl::add: the dispatcher is constructed (and started) by
\* emplace_back, then the active count is incremented.
add(S, replayable) ==
    LET r == Len(S.replayables) + 1
        S1 == [S EXCEPT !.replayables = Append(@, replayable)]
        S2 == ReplayableDispatcher_start(S1, r)
    IN [S2 EXCEPT !.activeCount = @ + 1]

----------------------------------------------------------------------------
(* Risk model; fair prices and NOP are exact rationals, d = 0 encoding NaN *)

RNaN == [n |-> 0, d |-> 0]
RIsNaN(x) == x.d = 0
RInt(i) == IF IsNaN(i) THEN RNaN ELSE [n |-> i, d |-> 1]
RAdd(a, b) ==
    IF RIsNaN(a) \/ RIsNaN(b) THEN RNaN
    ELSE [n |-> a.n * b.d + b.n * a.d, d |-> a.d * b.d]
RSub(a, b) ==
    IF RIsNaN(a) \/ RIsNaN(b) THEN RNaN
    ELSE [n |-> a.n * b.d - b.n * a.d, d |-> a.d * b.d]
RMul(a, b) ==
    IF RIsNaN(a) \/ RIsNaN(b) THEN RNaN
    ELSE [n |-> a.n * b.n, d |-> a.d * b.d]
\* a / b for b > 0
RDiv(a, b) ==
    IF RIsNaN(a) \/ RIsNaN(b) THEN RNaN
    ELSE [n |-> a.n * b.d, d |-> a.d * b.n]
RLt(a, b) == ~RIsNaN(a) /\ ~RIsNaN(b) /\ a.n * b.d < b.n * a.d
RLe(a, b) == ~RIsNaN(a) /\ ~RIsNaN(b) /\ a.n * b.d <= b.n * a.d
\* std::max(a, b) is (a < b) ? b : a
RMax(a, b) == IF RLt(a, b) THEN b ELSE a

USD == <<"U", "S", "D">>

\* The record a cached pointer refers to.
Deref(S, ptr) == S.replayables[ptr.owner].records[ptr.symbol]

\* SimpleRiskModel::getFairPrice
getFairPrice(S, asset) ==
    IF asset = USD THEN RInt(1)
    ELSE LET it == getCachedRecord(S, asset \o <<"/">> \o USD)
             it2 == getCachedRecord(S, USD \o <<"/">> \o asset)
         IN IF it # <<>>
            THEN RDiv(RInt(FAdd(Deref(S, it[1]).bidPrice, Deref(S, it[1]).askPrice)),
                      RInt(2))
            ELSE IF it2 # <<>>
            THEN RDiv(RInt(2),
                      RInt(FAdd(Deref(S, it2[1]).bidPrice, Deref(S, it2[1]).askPrice)))
            ELSE RNaN

\* The loop of Risk::getNOP over the assets not yet visited.
RECURSIVE NOPSums(_, _, _, _)
NOPSums(S, assets, longs, shorts) ==
    IF assets = {} THEN [longs |-> longs, shorts |-> shorts]
    ELSE LET asset == CHOOSE a \in assets : TRUE
             position == S.positions[asset]
             value == RMul(RInt(position), getFairPrice(S, asset))
         IN IF FLe(0, position)
            THEN NOPSums(S, assets \ {asset}, RAdd(longs, value), shorts)
            ELSE NOPSums(S, assets \ {asset}, longs, RSub(shorts, value))

\* Risk::getNOP over m_positions
getNOP(S) ==
    LET sums == NOPSums(S, DOMAIN S.positions, RInt(0), RInt(0))
    IN RMax(sums.longs, sums.shorts)

----------------------------------------------------------------------------
(* LP simulator: order processing *)

\* 1 / priceTolerance
PriceToleranceInv == 100000000

DoneStatusDone == "Done"
DoneStatusInternalReject == "InternalReject"

Notify(S, n) ==
    [S EXCEPT !.notifications =
        Append(@, n @@ [time |-> S.now, step |-> CurrentStep(S)])]

\* ExecutorImpl::ackOrder; the observer's onAck may act.
ackOrder(S, ex, order) ==
    StrategyHook(Notify(S, [type |-> "ack", orderId |-> order.orderId, ex |-> ex]))

\* Mutant: the minimum gap between orders is not checked.
validateOrder_noGap(S, ex, order) ==
    /\ S.executors[ex].book # <<>>
    /\ order.tif = "IOC"
    /\ FLt(0, order.qty)

validateOrder(S, ex, order) ==
    /\ S.executors[ex].book # <<>>
    /\ order.tif = "IOC"
    /\ FLt(0, order.qty)
    /\ getEventTime(S) - S.executors[ex].lastOrderSendTime >= S.settings.minOrderGap

\* isPriceImprovementEnabled
isPriceImprovementEnabled == TRUE

validateNOPChange(S, ex, dealt, contra) ==
    IF IsNaN(dealt) \/ IsNaN(contra) THEN FALSE
    ELSE LET base == getBaseAsset(ex[1])
             quote == getQuoteAsset(ex[1])
             currentNOP == getNOP(S)
             S1 == [S EXCEPT !.positions[base] = FAdd(@, dealt)]
             S2 == [S1 EXCEPT !.positions[quote] = FAdd(@, contra)]
             newNOP == getNOP(S2)
         IN RLt(newNOP, currentNOP) \/ RLe(newNOP, RInt(S.settings.maxNOP))

\* The positions after validateNOPChange's tentative update and its revert.
validateNOPChangeEffect(S, ex, dealt, contra) ==
    IF IsNaN(dealt) \/ IsNaN(contra) THEN S
    ELSE LET base == getBaseAsset(ex[1])
             quote == getQuoteAsset(ex[1])
             S1 == [S EXCEPT !.positions[base] = FAdd(@, dealt)]
             S2 == [S1 EXCEPT !.positions[quote] = FAdd(@, contra)]
             S3 == [S2 EXCEPT !.positions[base] = FSub(@, dealt)]
         IN [S3 EXCEPT !.positions[quote] = FSub(@, contra)]

enqueueFill(S, ex, orderId, dealt, contra) ==
    postEvent(S, S.settings.outboundDelay,
              [kind |-> "fill", ex |-> ex, orderId |-> orderId,
               dealt |-> dealt, contra |-> contra])

\* Mutant: the termination is posted without the outbound delay.
enqueOrderDone_noDelay(S, ex, order, status) ==
    postEvent(S, 0,
              [kind |-> "term", ex |-> ex, orderId |-> order.orderId,
               status |-> status])

enqueOrderDone(S, ex, order, status) ==
    postEvent(S, S.settings.outboundDelay,
              [kind |-> "term", ex |-> ex, orderId |-> order.orderId,
               status |-> status])

\* History: the values m_service.getNOP() returns inside validateNOPChange.
NOPBefore(S) == getNOP(S)
NOPAfter(S, ex, dealt, contra) ==
    LET S1 == [S EXCEPT !.positions[getBaseAsset(ex[1])] = FAdd(@, dealt)]
    IN getNOP([S1 EXCEPT !.positions[getQuoteAsset(ex[1])] = FAdd(@, contra)])

\* Mutant: the order's own price is used for the fill.
matchedPrice_limit(order, top) ==
    IF IsNaN(order.price) THEN top ELSE order.price

\* The price of the fill
matchedPrice(order, top) ==
    IF IsNaN(order.price) \/ isPriceImprovementEnabled
    THEN top ELSE order.price

\* Mutant: an order that does not cross is rejected.
noCrossStatus_reject == DoneStatusInternalReject

\* The status agress returns for an order that does not cross.
noCrossStatus == DoneStatusDone

\* ExecutorImpl::agress: the state it leaves and the status it returns, with
\* what it computed on the way (gate: validateNOPChange was called; fill:
\* enqueueFill was called).
agress(S, ex, order, qtyTop, top) ==
    LET sideSign == sideToSign(order.side)
        noCross ==
            \/ IsNaN(top)
            \/ /\ ~IsNaN(order.price)
               /\ (order.price * sideSign - top * sideSign) * PriceToleranceInv < -1
        matchedQty == FMin(qtyTop, order.qty)
        dealt == FMul(sideSign, matchedQty)
        contra == FMul(FNeg(dealt), matchedPrice(order, top))
        none == [gate |-> FALSE, fill |-> FALSE, dealt |-> NaN, contra |-> NaN,
                 currentNOP |-> RNaN, newNOP |-> RNaN]
        gated == [gate |-> TRUE, dealt |-> dealt, contra |-> contra,
                  currentNOP |-> NOPBefore(S),
                  newNOP |-> NOPAfter(S, ex, dealt, contra)]
    IN IF noCross
       THEN [S |-> S, status |-> noCrossStatus] @@ none
       ELSE IF FLt(0, matchedQty)
       THEN IF ~validateNOPChange(S, ex, dealt, contra)
            THEN [S |-> validateNOPChangeEffect(S, ex, dealt, contra),
                  status |-> DoneStatusInternalReject, fill |-> FALSE] @@ gated
            ELSE [S |-> enqueueFill(validateNOPChangeEffect(S, ex, dealt, contra),
                                    ex, order.orderId, dealt, contra),
                  status |-> DoneStatusDone, fill |-> TRUE] @@ gated
       ELSE [S |-> S, status |-> DoneStatusDone] @@ none

\* History: one record per processed order.
Processed(S0, S, ex, order, valid, attempted, r) ==
    [S EXCEPT !.processed = Append(@,
        [orderId |-> order.orderId, ex |-> ex, order |-> order,
         time |-> S0.now, step |-> CurrentStep(S0),
         bookNull |-> S0.executors[ex].book = <<>>,
         lastOrderSendTime |-> S0.executors[ex].lastOrderSendTime,
         minOrderGap |-> S0.settings.minOrderGap,
         maxNOP |-> S0.settings.maxNOP,
         valid |-> valid, attempted |-> attempted,
         qtyAtTop |-> r.qtyAtTop, topPrice |-> r.topPrice,
         status |-> r.status, gate |-> r.gate, fill |-> r.fill,
         dealt |-> r.dealt, contra |-> r.contra,
         currentNOP |-> r.currentNOP, newNOP |-> r.newNOP,
         positionsBefore |-> S0.positions, positionsAfter |-> S.positions,
         lastOrderSendTimeAfter |-> S.executors[ex].lastOrderSendTime])]

\* The side-appropriate top of the book
qtyAtTop(order, book) == IF order.side = Buy THEN book.askSize ELSE book.bidSize
topPrice(order, book) == IF order.side = Buy THEN book.askPrice ELSE book.bidPrice

\* What process records for an order that fails validation.
NotAttempted ==
    [status |-> DoneStatusInternalReject, gate |-> FALSE, fill |-> FALSE,
     dealt |-> NaN, contra |-> NaN, currentNOP |-> RNaN, newNOP |-> RNaN,
     qtyAtTop |-> NaN, topPrice |-> NaN]

\* process after validation succeeded: S1 is the state after the ack, book
\* the record m_book points to, r what agress returned.
processDone(S1, ex, order, book, r) ==
    enqueOrderDone(
        Processed(S1, r.S, ex, order, TRUE, TRUE,
                  r @@ [qtyAtTop |-> qtyAtTop(order, book),
                        topPrice |-> topPrice(order, book)]),
        ex, order, r.status)

\* Mutant: the time of the order is stored for every executor.
processValid_shared(S1, ex, order, book) ==
    processDone(S1, ex, order, book,
                agress([S1 EXCEPT !.executors =
                            [e \in DOMAIN @ |->
                                [@[e] EXCEPT !.lastOrderSendTime = getEventTime(S1)]]],
                       ex, order, qtyAtTop(order, book), topPrice(order, book)))

processValid(S1, ex, order, book) ==
    processDone(S1, ex, order, book,
                agress([S1 EXCEPT !.executors[ex].lastOrderSendTime = getEventTime(S1)],
                       ex, order, qtyAtTop(order, book), topPrice(order, book)))

\* Mutant: process looks the book up in the cache when it is still null.
processAcked_resolve(S1, ex, order) ==
    LET S2 == IF S1.executors[ex].book = <<>>
              THEN [S1 EXCEPT !.executors[ex].book = getCachedRecord(S1, ex[1])]
              ELSE S1
    IN IF validateOrder(S2, ex, order)
       THEN processValid(S2, ex, order, Deref(S2, S2.executors[ex].book[1]))
       ELSE enqueOrderDone(
                Processed(S2, S2, ex, order, FALSE, FALSE, NotAttempted),
                ex, order, DoneStatusInternalReject)

\* process after the ack
processAcked(S1, ex, order) ==
    IF validateOrder(S1, ex, order)
    THEN processValid(S1, ex, order, Deref(S1, S1.executors[ex].book[1]))
    ELSE enqueOrderDone(
             Processed(S1, S1, ex, order, FALSE, FALSE, NotAttempted),
             ex, order, DoneStatusInternalReject)

\* ExecutorImpl::process
process(S, ex, order) == processAcked(ackOrder(S, ex, order), ex, order)

\* Mutant: the batch is ended before onFill is delivered.
fill_endBatchFirst(S, ex, orderId, dealt, contra) ==
    LET S1 == [S EXCEPT !.positions[getBaseAsset(ex[1])] = FAdd(@, dealt)]
        S2 == [S1 EXCEPT !.positions[getQuoteAsset(ex[1])] = FAdd(@, contra)]
        S3 == Entry_publish(S2, PositionsPub, getBaseAsset(ex[1]))
        S4 == Entry_publish(S3, PositionsPub, getQuoteAsset(ex[1]))
        S5 == DirectConsumer_endBatch(S4, PositionsPub)
    IN StrategyHook(Notify(S5, [type |-> "fill", orderId |-> orderId,
                                ex |-> ex, dealt |-> dealt,
                                contra |-> contra]))

\* Mutant: the fill takes the dealt quantity off the top-of-book record.
fill_deplete(S, ex, orderId, dealt, contra) ==
    LET S0 == IF dealt > 0
              THEN [S EXCEPT !.replayables[1].records[ex[1]].askSize = @ - dealt]
              ELSE [S EXCEPT !.replayables[1].records[ex[1]].bidSize = @ + dealt]
        S1 == [S0 EXCEPT !.positions[getBaseAsset(ex[1])] = FAdd(@, dealt)]
        S2 == [S1 EXCEPT !.positions[getQuoteAsset(ex[1])] = FAdd(@, contra)]
        S3 == Entry_publish(S2, PositionsPub, getBaseAsset(ex[1]))
        S4 == Entry_publish(S3, PositionsPub, getQuoteAsset(ex[1]))
        S5 == StrategyHook(Notify(S4, [type |-> "fill", orderId |-> orderId,
                                       ex |-> ex, dealt |-> dealt,
                                       contra |-> contra]))
    IN DirectConsumer_endBatch(S5, PositionsPub)

\* The event posted by enqueueFill
fill(S, ex, orderId, dealt, contra) ==
    LET S1 == [S EXCEPT !.positions[getBaseAsset(ex[1])] = FAdd(@, dealt)]
        S2 == [S1 EXCEPT !.positions[getQuoteAsset(ex[1])] = FAdd(@, contra)]
        S3 == Entry_publish(S2, PositionsPub, getBaseAsset(ex[1]))
        S4 == Entry_publish(S3, PositionsPub, getQuoteAsset(ex[1]))
        S5 == StrategyHook(Notify(S4, [type |-> "fill", orderId |-> orderId,
                                       ex |-> ex, dealt |-> dealt,
                                       contra |-> contra]))
    IN DirectConsumer_endBatch(S5, PositionsPub)

\* The event posted by enqueOrderDone
terminated(S, ex, orderId, status) ==
    StrategyHook(Notify(S, [type |-> "term", orderId |-> orderId, ex |-> ex,
                            status |-> status]))

----------------------------------------------------------------------------
(* The dispatch loop *)

RECURSIVE RunCalls(_, _)
RunCalls(S, calls) ==
    IF calls = <<>> THEN S ELSE RunCalls(Call(S, Head(calls)), Tail(calls))

\* event(): the body of a queued event, by what it was posted to do.
EventBody(S, event) ==
    CASE event.kind = "cb" -> RunCalls([S EXCEPT !.script = <<>>], S.script)
      [] event.kind = "stop" -> [S EXCEPT !.enable = FALSE]
      [] event.kind = "prime" -> stop(S, 0)
      [] event.kind = "replay" -> ReplayableDispatcher_dispatch(S, event.r)
      [] event.kind = "process" -> process(S, event.ex, event.order)
      [] event.kind = "fill" ->
           fill(S, event.ex, event.orderId, event.dealt, event.contra)
      [] event.kind = "term" ->
           terminated(S, event.ex, event.orderId, event.status)

\* History: the event that is run, the time it observes and what was still
\* queued when it was taken (S is the state right after it was popped).
Ran(S, queue, e) ==
    [S EXCEPT !.dispatched = Append(@,
        [queue |-> queue, kind |-> e.event.kind, serial |-> e.serial,
         eventId |-> e.eventId, delta |-> e.delta, postStep |-> e.postStep,
         postTime |-> e.postTime, time |-> S.now, call |-> S.dispatchCalls,
         choresAtPop |-> Len(S.chores),
         dueAtPop |-> Cardinality({x \in S.futureEvents :
                                      x.expireTime <= S.now}),
         dueWorkAtPop |-> Cardinality({x \in S.futureEvents :
                                          /\ x.expireTime <= S.now
                                          /\ x.event.kind # "stop"})])]

\* Mutant: the chore runs at the time of the earliest future event.
dispatchChores_fastForward(S) ==
    LET e == Head(S.chores)
        S1 == IF S.futureEvents # {}
              THEN [S EXCEPT !.now = (CHOOSE x \in TopFuture(S) : TRUE).expireTime]
              ELSE S
    IN EventBody(Ran([S1 EXCEPT !.chores = Tail(@)], "chore", e), e.event)

\* One iteration of dispatchChores: pop the front chore and run it.
dispatchChores(S) ==
    LET e == Head(S.chores)
    IN EventBody(Ran([S EXCEPT !.chores = Tail(@)], "chore", e), e.event)

\* dispatchNextFutureEvent, e being the top of the queue.
dispatchNextFutureEvent(S, e) ==
    LET S1 == [S EXCEPT !.futureEvents = @ \ {e}, !.now = e.expireTime]
    IN EventBody(Ran(S1, "future", e), e.event)

\* Mutant: dispatch without m_enable = true.
dispatch_noEnable(S) ==
    LET S1 == [S EXCEPT !.running = TRUE, !.dispatchCalls = @ + 1]
    IN IF S1.futureEvents # {}
       THEN [S1 EXCEPT !.now = (CHOOSE e \in TopFuture(S1) : TRUE).expireTime]
       ELSE S1

\* Mutant: dispatch does not fast-forward to the next future event.
dispatch_noFastForward(S) ==
    [S EXCEPT !.enable = TRUE, !.running = TRUE, !.dispatchCalls = @ + 1]

\* EventLoop::Impl::dispatch(true), up to the loop.
dispatch(S) ==
    LET S1 == [S EXCEPT !.enable = TRUE, !.running = TRUE,
                        !.dispatchCalls = @ + 1]
    IN IF S1.futureEvents # {}
       THEN [S1 EXCEPT !.now = (CHOOSE e \in TopFuture(S1) : TRUE).expireTime]
       ELSE S1

\* The loop condition of dispatch.
LoopCondition(S) == S.enable /\ (S.futureEvents # {} \/ S.chores # <<>>)

\* Mutant: a due future event is taken before the chores are drained.
NextEvents_futureFirst(S) ==
    IF S.futureEvents # {}
    THEN {[queue |-> "future", e |-> e] : e \in TopFuture(S)}
    ELSE {[queue |-> "chore", e |-> Head(S.chores)]}

\* The events the loop may run next: the front chore if there is one (the
\* inner loop of dispatchChores drains them), else a top future event.
NextEvents(S) ==
    IF S.chores # <<>>
    THEN {[queue |-> "chore", e |-> Head(S.chores)]}
    ELSE {[queue |-> "future", e |-> e] : e \in TopFuture(S)}

NumCalls(script, op) == Cardinality({i \in 1..Len(script) : script[i].op = op})

\* The model's caps on what callbacks may ask for.
MaxOrders == 2
WithinBudget(script) ==
    /\ userPosts + NumCalls(script, "post") <= MaxUserPosts
    /\ userStops + NumCalls(script, "stop") <= MaxUserStops
    /\ lastOrderId + NumCalls(script, "send") <= MaxOrders

\* One step of the loop running an event of the given kind.
Step(kind, script) ==
    /\ running
    /\ LoopCondition(St)
    /\ WithinBudget(script)
    /\ \E p \in NextEvents(St) :
         /\ p.e.event.kind = kind
         /\ LET S == [St EXCEPT !.script = script]
            IN IF p.queue = "chore"
               THEN Become(dispatchChores(S))
               ELSE Become(dispatchNextFutureEvent(S, p.e))

----------------------------------------------------------------------------
(* Specification of the event loop with replayables and callbacks *)

EURUSD == <<"E", "U", "R", "/", "U", "S", "D">>
USDJPY == <<"U", "S", "D", "/", "J", "P", "Y">>

Tick(ts, symbol, bid, ask) ==
    [timestamp |-> ts, symbol |-> symbol,
     book |-> [bidSize |-> 2, bidPrice |-> bid, askSize |-> 2, askPrice |-> ask]]

\* Input streams, with non-decreasing timestamps.
LoopInputs ==
    { <<>>,
      << Tick(1, EURUSD, 1, 3) >>,
      << Tick(0, EURUSD, 1, 3), Tick(2, USDJPY, 2, 4) >>,
      << Tick(1, EURUSD, 1, 3), Tick(1, USDJPY, 2, 4) >> }

LoopCalls ==
    {[op |-> "post", delta |-> d] : d \in 0..MaxDelta}
        \cup {[op |-> "stop", delta |-> d] : d \in 0..MaxStopDelta}

\* main's settings {1ms, 1ms, 10s, 10e6}, in units of the model
MainSettings ==
    [inboundDelay |-> 1, outboundDelay |-> 1, minOrderGap |-> 3, maxNOP |-> 10]

\* The event loop, the simulator and the histories after construction
InitEngine ==
    /\ now = 0
    /\ futureEvents = {}
    /\ chores = <<>>
    /\ replayables = <<>>
    /\ activeCount = 0
    /\ lastEventId = 0
    /\ enable = TRUE
    /\ running = FALSE
    /\ dispatchCalls = 0
    /\ serial = 0
    /\ dispatched = <<>>
    /\ userPosts = 0
    /\ userStops = 0
    /\ stopCalls = 0
    /\ attached = FALSE
    /\ lastOrderId = 0
    /\ executors = <<>>
    /\ positions = <<>>
    /\ sent = <<>>
    /\ notifications = <<>>
    /\ processed = <<>>
    /\ pubLog = <<>>

\* main's market data and positions infrastructure: mdPub feeds mdProxy and
\* positionsPub feeds positionsProxy; the fan-out list of each proxy holds
\* the publisher of its cache (addFront on the empty proxy).
InitFabric ==
    /\ consumers = MdPub :> NewConsumer("proxy", MdProxy)
                       @@ MdCachePub :> NewConsumer("cache", MdCache)
                       @@ PositionsPub :> NewConsumer("proxy", PositionsProxy)
                       @@ PositionsCachePub :> NewConsumer("cache", PositionsCache)
    /\ proxies = MdProxy :> [publishers |-> <<MdCachePub>>, entries |-> <<>>]
                     @@ PositionsProxy :>
                            [publishers |-> <<PositionsCachePub>>, entries |-> <<>>]
    /\ caches = MdCache :> <<>> @@ PositionsCache :> <<>>
    /\ subscribing = {}

InitCommon == InitEngine /\ InitFabric

Init == InitCommon /\ settings = MainSettings

\* postEvent called from outside dispatch()
PostEvent ==
    \E d \in 0..MaxDelta :
        /\ ~running
        /\ WithinBudget(<<[op |-> "post", delta |-> d]>>)
        /\ Become(Call(St, [op |-> "post", delta |-> d]))

\* stop called from outside dispatch()
Stop ==
    \E d \in 0..MaxStopDelta :
        /\ ~running
        /\ WithinBudget(<<[op |-> "stop", delta |-> d]>>)
        /\ Become(Call(St, [op |-> "stop", delta |-> d]))

\* A replayer is constructed over an input stream and registers itself.
Add ==
    \E inputData \in LoopInputs :
        /\ ~running
        /\ Len(replayables) < MaxReplayables
        /\ Len(replayables) < MAX_REPLAYABLES
        /\ Become(add(St, NewReplayer(inputData)))

Dispatch ==
    /\ ~running
    /\ dispatchCalls < MaxDispatches
    /\ Become(dispatch(St))

DispatchReturn ==
    /\ running
    /\ ~LoopCondition(St)
    /\ Become([St EXCEPT !.running = FALSE])

\* A callback posted by main or by a callback runs; it makes up to MaxCalls calls.
RunCallback ==
    \E script \in SeqsUpTo(LoopCalls, MaxCalls) :
        /\ running
        /\ Step("cb", script)

\* The event posted by stop runs.
RunStop ==
    /\ running
    /\ Step("stop", <<>>)

\* A replayable's dispatcher runs: one batch is published and it re-arms.
RunReplay ==
    /\ running
    /\ Step("replay", <<>>)

Next ==
    \/ PostEvent
    \/ Stop
    \/ Add
    \/ Dispatch
    \/ DispatchReturn
    \/ RunCallback
    \/ RunStop
    \/ RunReplay

Spec == Init /\ [][Next]_vars

----------------------------------------------------------------------------
(* Specification of a DirectConsumer driven by its publisher, in front of   *)
(* a user subscriber                                                        *)

Dc == "dc"
Sub == "sub"
TopicA == <<"A">>
TopicB == <<"B">>
PubTopics == {TopicA, TopicB}
PubRecords == {"r1", "r2"}

\* The callbacks subscribe is called with: an empty one, the one the
\* subscriber uses in notify, or another one of the subscriber.
Sub2 == "sub2"
PubCallbacks == {NullPtr, <<UserCallback(Sub)>>, <<UserCallback(Sub2)>>}

MaxPubOps == 4

\* The calls made on the consumer so far
PubOps == Cardinality({i \in 1..Len(pubLog) : pubLog[i].who = Dc})
    + Cardinality({i \in 1..Len(pubLog) : pubLog[i].op = "subscribe"})

InitPub ==
    /\ InitEngine
    /\ settings = MainSettings
    /\ consumers = Dc :> NewConsumer("user", Sub)
    /\ proxies = <<>>
    /\ caches = <<>>
    /\ subscribing \in {{}, {Sub}}

\* The publisher creates (or rebinds) the entry of a topic.
PubCreateEntry ==
    \E topic \in PubTopics, data \in PubRecords :
        /\ PubOps < MaxPubOps
        /\ Become(DirectConsumer_createEntry(St, Dc, topic, data))

\* The subscriber subscribes to a topic outside of notify.
PubSubscribe ==
    \E topic \in PubTopics, cb \in PubCallbacks :
        /\ PubOps < MaxPubOps
        /\ Become(DirectConsumer_subscribe(
                      Logged(St, "subscribe", Sub, topic, cb), Dc, topic, cb))

\* The publisher publishes an entry createEntry returned to it.
PubPublish ==
    \E topic \in PubTopics :
        /\ PubOps < MaxPubOps
        /\ topic \in DOMAIN consumers[Dc].entries
        /\ consumers[Dc].entries[topic].data # NullPtr
        /\ Become(Entry_publish(St, Dc, topic))

PubEndBatch ==
    /\ PubOps < MaxPubOps
    /\ Become(DirectConsumer_endBatch(St, Dc))

NextPub ==
    \/ PubCreateEntry
    \/ PubSubscribe
    \/ PubPublish
    \/ PubEndBatch

SpecPub == InitPub /\ [][NextPub]_vars

----------------------------------------------------------------------------
(* Specification of a Proxy between an upstream DirectConsumer and the      *)
(* DirectConsumers of a CacheSubscriber and of a user subscriber, which     *)
(* are added to its fan-out list at any moment, in front or at the back     *)

\* The publishers that can be added to the proxy
Downstream == {MdCachePub, MdStrategyPub}

MaxProxyOps == 5

\* The calls made by the upstream publisher and by the wiring so far
ProxyOps ==
    Cardinality({i \in 1..Len(pubLog) :
        \/ pubLog[i].who = MdPub
        \/ pubLog[i].op \in {"addFront", "addBack"}})

InitProxy ==
    /\ InitEngine
    /\ settings = MainSettings
    /\ consumers = MdPub :> NewConsumer("proxy", MdProxy)
                       @@ MdCachePub :> NewConsumer("cache", MdCache)
                       @@ MdStrategyPub :> NewConsumer("user", Sub)
    /\ proxies = MdProxy :> [publishers |-> <<>>, entries |-> <<>>]
    /\ caches = MdCache :> <<>>
    /\ subscribing \in {{}, {Sub}}

\* Whether a publisher is in the fan-out list of the proxy
Attached(d) ==
    \E i \in 1..Len(proxies[MdProxy].publishers) :
        proxies[MdProxy].publishers[i] = d

\* The upstream publisher creates (or rebinds) the entry of a topic.
ProxyCreateEntry ==
    \E topic \in PubTopics, data \in PubRecords :
        /\ ProxyOps < MaxProxyOps
        /\ Become(DirectConsumer_createEntry(St, MdPub, topic, data))

\* The upstream publisher publishes an entry createEntry returned to it.
ProxyPublish ==
    \E topic \in PubTopics :
        /\ ProxyOps < MaxProxyOps
        /\ topic \in DOMAIN consumers[MdPub].entries
        /\ Become(Entry_publish(St, MdPub, topic))

ProxyEndBatch ==
    /\ ProxyOps < MaxProxyOps
    /\ Become(DirectConsumer_endBatch(St, MdPub))

ProxyAddFront ==
    \E d \in Downstream, order \in Orders(DOMAIN proxies[MdProxy].entries) :
        /\ ProxyOps < MaxProxyOps
        /\ ~Attached(d)
        /\ Become(addFront(Logged(St, "addFront", d, <<>>, NullPtr),
                           MdProxy, d, order))

ProxyAddBack ==
    \E d \in Downstream, order \in Orders(DOMAIN proxies[MdProxy].entries) :
        /\ ProxyOps < MaxProxyOps
        /\ ~Attached(d)
        /\ Become(addBack(Logged(St, "addBack", d, <<>>, NullPtr),
                          MdProxy, d, order))

NextProxy ==
    \/ ProxyCreateEntry
    \/ ProxyPublish
    \/ ProxyEndBatch
    \/ ProxyAddFront
    \/ ProxyAddBack

SpecProxy == InitProxy /\ [][NextProxy]_vars

----------------------------------------------------------------------------
(* Specification of the event loop with several replayables registered in   *)
(* any order, exhausted or not when they are registered                     *)

MaxAdds == 2

\* A replayer is constructed over an input stream and registers itself,
\* before or after other replayers, before or between dispatch() calls.
AddReplayer ==
    \E inputData \in LoopInputs :
        /\ ~running
        /\ Len(replayables) < MaxAdds
        /\ Len(replayables) < MAX_REPLAYABLES
        /\ Become(add(St, NewReplayer(inputData)))

NextReplay ==
    \/ AddReplayer
    \/ Dispatch
    \/ DispatchReturn
    \/ RunStop
    \/ RunReplay

SpecReplay == Init /\ [][NextReplay]_vars

----------------------------------------------------------------------------
(* Specification of main's run: the replayer, the LP simulator and a       *)
(* strategy sending orders from its callbacks                              *)

\* A strategy callback posts a timer, sends one of these orders, or does nothing.
Strategy == "strategy"

LPCalls ==
    { [op |-> "none"],
      [op |-> "post", delta |-> 1],
      [op |-> "send", symbol |-> EURUSD, observer |-> Strategy, side |-> Buy,
       price |-> NaN, qty |-> 1, tif |-> "IOC"],
      [op |-> "send", symbol |-> USDJPY, observer |-> Strategy, side |-> Sell,
       price |-> 2, qty |-> 3, tif |-> "IOC"] }

MaxScript == 2
MaxTimers == 1

\* The caps on what the strategy's callbacks may ask for in one step.
StrategyBudget(script) ==
    /\ WithinBudget(script)
    /\ userPosts + NumCalls(script, "post") <= MaxTimers

LPInputs ==
    { <<>>,
      << Tick(1, EURUSD, 1, 3) >>,
      << Tick(1, EURUSD, 1, 3), Tick(2, EURUSD, 2, 3) >>,
      << Tick(1, EURUSD, 1, 3), Tick(1, USDJPY, 2, 4), Tick(3, EURUSD, 1, 2) >> }

LPSettings ==
    { [inboundDelay |-> i, outboundDelay |-> o, minOrderGap |-> 1, maxNOP |-> 10] :
        i \in 0..1, o \in 0..1 }

InitLP == InitCommon /\ settings \in LPSettings

\* main: the replayer is constructed over the input and registers itself.
AtReplayer == ~running /\ dispatchCalls = 0 /\ Len(replayables) = 0

MainReplayer ==
    \E inputData \in LPInputs :
        /\ AtReplayer
        /\ Become(add(St, NewReplayer(inputData)))

\* main has posted its priming event.
Primed == \E k \in 1..Len(chores) : chores[k].event.kind = "prime"

\* main: eventLoop.postEvent(0ns, [&]() { eventLoop.stop(0ns); })
AtPrime == ~running /\ dispatchCalls = 0 /\ Len(replayables) = 1 /\ ~Primed

MainPrime ==
    /\ AtPrime
    /\ Become(postEvent(St, 0, [kind |-> "prime"]))

\* main: the priming dispatch, and the dispatch that runs the simulation.
AtDispatch ==
    /\ ~running
    /\ \/ dispatchCalls = 0 /\ Primed
       \/ dispatchCalls = 1 /\ attached

MainDispatch ==
    /\ AtDispatch
    /\ Become(dispatch(St))

\* createStrategy: the constructor's calls.
AfterConstructor(S, script) ==
    RunCalls([S EXCEPT !.attached = TRUE, !.subscribing = {Strategy}], script)

\* main: strategyPositionsPub is constructed over the strategy and added at
\* the back of the positions proxy.
AttachPositions(S, order) ==
    addBack([S EXCEPT !.consumers =
                 StrategyPositionsPub :> NewConsumer("user", Strategy) @@ @],
            PositionsProxy, StrategyPositionsPub, order)

\* main: mdStrategyPub is constructed over the strategy and added at the back
\* of the market data proxy.
AttachMarketData(S, order) ==
    addBack([S EXCEPT !.consumers =
                 MdStrategyPub :> NewConsumer("user", Strategy) @@ @],
            MdProxy, MdStrategyPub, order)

\* main, from createStrategy to the second addBack
Attach(S, script, mdOrder, order) ==
    AttachPositions(AttachMarketData(AfterConstructor(S, script), mdOrder), order)

\* The orders in which the two proxies can announce their topics to a
\* strategy constructed with the calls of script.
AttachOrders(S1) ==
    Orders(DOMAIN S1.proxies[MdProxy].entries)
        \X Orders(DOMAIN S1.proxies[PositionsProxy].entries)

\* main: the strategy is created and attached behind the caches; its
\* constructor and its notify callbacks may post timers and send orders.
AtAttach == ~running /\ dispatchCalls = 1 /\ ~attached

MainAttach ==
    \E script \in SeqsUpTo(LPCalls, MaxScript) :
        /\ AtAttach
        /\ StrategyBudget(script)
        /\ \E orders \in AttachOrders(AfterConstructor(St, script)) :
             Become(Attach(St, script, orders[1], orders[2]))

\* The chore posted by main runs: it calls stop(0).
RunPrime ==
    /\ running
    /\ Step("prime", <<>>)

\* A timer of the strategy runs.
RunTimer ==
    \E script \in SeqsUpTo(LPCalls, MaxScript) :
        /\ running
        /\ StrategyBudget(script)
        /\ Step("cb", script)

\* The replayer publishes a batch; the strategy's callbacks may act.
RunMarketData ==
    \E script \in SeqsUpTo(LPCalls, MaxScript) :
        /\ running
        /\ StrategyBudget(script)
        /\ Step("replay", script)

\* An order reaches the simulator: ack, validation, matching, done.
RunProcess ==
    \E script \in SeqsUpTo(LPCalls, 1) :
        /\ running
        /\ StrategyBudget(script)
        /\ Step("process", script)

RunFill ==
    \E script \in SeqsUpTo(LPCalls, 1) :
        /\ running
        /\ StrategyBudget(script)
        /\ Step("fill", script)

RunTerminated ==
    \E script \in SeqsUpTo(LPCalls, 1) :
        /\ running
        /\ StrategyBudget(script)
        /\ Step("term", script)

NextLP ==
    \/ MainReplayer
    \/ MainPrime
    \/ MainDispatch
    \/ MainAttach
    \/ DispatchReturn
    \/ RunPrime
    \/ RunStop
    \/ RunTimer
    \/ RunMarketData
    \/ RunProcess
    \/ RunFill
    \/ RunTerminated

SpecLP == InitLP /\ [][NextLP]_vars

\* main has returned from its last dispatch.
RunEnded == ~running /\ dispatchCalls = 2

----------------------------------------------------------------------------
(* Specification of main's run with a strategy that exercises the order     *)
(* validation, the matching and the NOP gate of the LP simulator            *)

Observer2 == "observer2"

Quote(ts, symbol, bidSize, bidPrice, askSize, askPrice) ==
    [timestamp |-> ts, symbol |-> symbol,
     book |-> [bidSize |-> bidSize, bidPrice |-> bidPrice,
               askSize |-> askSize, askPrice |-> askPrice]]

Order(symbol, observer, side, price, qty, tif) ==
    [op |-> "send", symbol |-> symbol, observer |-> observer, side |-> side,
     price |-> price, qty |-> qty, tif |-> tif]

\* Times in ticks of the model's clock, small prices and sizes.
GateSettings ==
    [inboundDelay |-> 1, outboundDelay |-> 1, minOrderGap |-> 2, maxNOP |-> 10]

\* {1ms, 1ms, 10s, 1e7} with times in ms.  In the run with these settings
\* base quantities are in units of 10^4 and prices in units of 10^-4, so
\* that quote quantities and NOP are in units of 1.
ReferenceSettings ==
    [inboundDelay |-> 1, outboundDelay |-> 1, minOrderGap |-> 10000,
     maxNOP |-> 10000000]

\* Buy, price = NaN, qty = 500000, IOC
ReferenceOrder == Order(EURUSD, Strategy, Buy, NaN, 50, "IOC")

\* 1e6 @ 1.1000 / 1e6 @ 1.1002
ReferenceBook ==
    [bidSize |-> 100, bidPrice |-> 11000, askSize |-> 100, askPrice |-> 11002]

\* A size whose value at the ask of 7 exceeds what a significand holds
\* exactly next to a small position.
LargeSize == 2 ^ (MantissaBits - 2)

\* The runs of this specification: settings and input stream.
OrderRuns ==
    { [settings |-> GateSettings,
       input |-> << Quote(2, EURUSD, 4, 1, 4, 3), Quote(3, EURUSD, 4, 1, 4, 3),
                    Quote(6, EURUSD, 4, 5, LargeSize, 7),
                    Quote(8, EURUSD, 4, 5, LargeSize, 7) >>],
      [settings |-> GateSettings,
       input |-> << Quote(2, USDJPY, 4, 2, 4, 4), Quote(3, EURUSD, 4, 1, 4, 3),
                    Quote(4, EURUSD, 4, 1, 4, NaN), Quote(6, EURUSD, 4, 1, 4, NaN) >>],
      [settings |-> ReferenceSettings,
       input |-> << [timestamp |-> 0, symbol |-> EURUSD, book |-> ReferenceBook],
                    [timestamp |-> 5, symbol |-> EURUSD, book |-> ReferenceBook],
                    [timestamp |-> 7, symbol |-> EURUSD, book |-> ReferenceBook] >>] }

\* The orders the strategy chooses from.
OrderCalls(s) ==
    IF s = ReferenceSettings
    THEN { ReferenceOrder }
    ELSE { Order(EURUSD, Strategy, Buy, NaN, 3, "IOC"),
           Order(EURUSD, Observer2, Buy, NaN, 3, "IOC"),
           Order(EURUSD, Strategy, Sell, 1, 5, "IOC"),
           Order(EURUSD, Strategy, Buy, 2, 1, "IOC"),
           Order(EURUSD, Strategy, Sell, 6, 1, "IOC"),
           Order(EURUSD, Strategy, Buy, NaN, LargeSize, "IOC"),
           Order(EURUSD, Strategy, Buy, NaN, 1, "GTC"),
           Order(EURUSD, Strategy, Buy, NaN, 0, "IOC"),
           Order(EURUSD, Strategy, Buy, NaN, NaN, "IOC") }

MaxSends == 2

\* What a callback of the strategy does: nothing, or it sends one order.
OrderScripts == {<<>>} \cup
    {<<c>> : c \in {x \in OrderCalls(settings) : lastOrderId < MaxSends}}

InitOrders == InitCommon /\ settings \in {run.settings : run \in OrderRuns}

OrdersReplayer ==
    \E run \in OrderRuns :
        /\ ~running
        /\ dispatchCalls = 0
        /\ Len(replayables) = 0
        /\ run.settings = settings
        /\ Become(add(St, NewReplayer(run.input)))

OrdersAttach ==
    \E script \in OrderScripts :
        /\ ~running
        /\ dispatchCalls = 1
        /\ ~attached
        /\ \E orders \in AttachOrders(AfterConstructor(St, script)) :
             Become(Attach(St, script, orders[1], orders[2]))

OrdersMarketData ==
    \E script \in OrderScripts :
        /\ running
        /\ Step("replay", script)

OrdersProcess ==
    /\ running
    /\ Step("process", <<>>)

OrdersFill ==
    /\ running
    /\ Step("fill", <<>>)

OrdersTerminated ==
    /\ running
    /\ Step("term", <<>>)

NextOrders ==
    \/ OrdersReplayer
    \/ MainPrime
    \/ MainDispatch
    \/ OrdersAttach
    \/ DispatchReturn
    \/ RunPrime
    \/ RunStop
    \/ OrdersMarketData
    \/ OrdersProcess
    \/ OrdersFill
    \/ OrdersTerminated

SpecOrders == InitOrders /\ [][NextOrders]_vars

----------------------------------------------------------------------------
(* Properties of the event loop, checked under Spec *)

Runs == 1..Len(dispatched)

\* C1: the time returned by getEventTime never decreases: every dispatched
\* chore or future event observes a time greater than or equal to the time
\* observed by every event dispatched before it, and the loop's time is never
\* behind the last of them.
C1_TimeNeverDecreases ==
    /\ \A i, j \in Runs :
           i < j => dispatched[i].time <= dispatched[j].time
    /\ \A i \in Runs : dispatched[i].time <= now

\* C1 witness: time has advanced between two dispatched events and a chore
\* ran after the advance, in the second dispatch() call.
C1_Witness ==
    \E i, j \in Runs :
        /\ i < j
        /\ dispatched[i].time < dispatched[j].time
        /\ dispatched[j].queue = "chore"
        /\ dispatched[j].call = 2

\* C2: events posted by postEvent that run at the same simulated time run in
\* the order in which they were posted, whether posted with delta = 0 or
\* delta > 0.
C2_SameTimeInPostOrder ==
    \A i, j \in Runs :
        (/\ i < j
         /\ dispatched[i].kind # "stop"
         /\ dispatched[j].kind # "stop"
         /\ dispatched[i].time = dispatched[j].time)
            => dispatched[i].serial < dispatched[j].serial

C6_StopWhenAllExhausted ==
    (/\ Len(replayables) > 0
     /\ \A r \in 1..Len(replayables) :
            getNextEventTime(replayables[r]) = TimestampMax)
        => stopCalls > 0

\* C7 as stated: when a stop event fires, the chore queue is empty and no
\* future event with expireTime <= t remains queued.
C7_NothingDueAtStop ==
    \A j \in Runs :
        dispatched[j].kind = "stop"
            => dispatched[j].choresAtPop = 0 /\ dispatched[j].dueAtPop = 0

\* C7 amended: when a stop event fires, the chore queue is empty and no event
\* posted by postEvent with expireTime <= t remains queued, including events
\* posted for time t after stop was called; only another stop event for the
\* same time may remain.
C7_NoPostedEventDueAtStop ==
    \A j \in Runs :
        dispatched[j].kind = "stop"
            => dispatched[j].choresAtPop = 0 /\ dispatched[j].dueWorkAtPop = 0

\* C7 witness: a stop event fired after a future event for the same time
\* that was posted after the stop call.
C7_Witness ==
    \E i, j \in Runs :
        /\ i < j
        /\ dispatched[j].kind = "stop"
        /\ dispatched[i].queue = "future"
        /\ dispatched[i].kind # "stop"
        /\ dispatched[i].time = dispatched[j].time
        /\ dispatched[i].serial > dispatched[j].serial

\* C8: dispatch() returns exactly when both queues are empty or a stop event
\* has fired in that call; events are dispatched only while the loop is
\* enabled inside dispatch(); the firing stop event and the return leave the
\* other queued events unchanged, and a later dispatch() call re-enables the
\* loop with the queues as they were left.
C8_Step ==
    /\ (running /\ ~running')
           => \/ futureEvents = {} /\ chores = <<>>
              \/ /\ ~enable
                 /\ dispatched # <<>>
                 /\ Last(dispatched).kind = "stop"
                 /\ Last(dispatched).call = dispatchCalls
    /\ (running /\ ~running') => UNCHANGED <<futureEvents, chores, dispatched>>
    /\ (running /\ running' /\ ~LoopCondition(St)) => UNCHANGED vars
    /\ dispatched' # dispatched => running /\ enable
    /\ (enable /\ ~enable')
           => /\ chores' = chores
              /\ futureEvents' \subseteq futureEvents
              /\ Cardinality(futureEvents \ futureEvents') = 1
    /\ (~running /\ running')
           => enable' /\ UNCHANGED <<futureEvents, chores, dispatched>>

C8_DispatchReturnsAndResumes == [][C8_Step]_vars

\* C8 witness: an event posted during the first dispatch() call before its
\* stop event fired was retained and is dispatched by the second call.
C8_Witness ==
    \E j, k \in Runs :
        /\ j < k
        /\ dispatched[j].kind = "stop"
        /\ dispatched[j].call = 1
        /\ dispatched[k].call = 2
        /\ dispatched[k].postStep > 0
        /\ dispatched[k].postStep < j

\* A step that pops a future event: it is appended to the history as such.
PopsFutureEvent ==
    /\ Len(dispatched') = Len(dispatched) + 1
    /\ Last(dispatched').queue = "future"

\* A step that enters dispatch().
EntersDispatch == ~running /\ running'

\* C31 as stated: simulated time only advances when a future event is popped
\* from the priority queue, so between two consecutive pops getEventTime() is
\* constant, and every chore observes the same time as the event or call
\* that posted it.
C31_TimeAdvancesOnlyAtPop ==
    /\ [][now' # now => PopsFutureEvent]_vars
    /\ [](\A i \in Runs :
              dispatched[i].queue = "chore"
                  => dispatched[i].time = dispatched[i].postTime)

\* C31 amended: simulated time changes only when a future event is popped or
\* when dispatch() is entered (which moves it to the earliest future event),
\* so inside a dispatch() call getEventTime() is constant between two
\* consecutive pops; every chore posted by a dispatched event observes the
\* same time as that event and runs in the same dispatch() call, and a chore
\* posted by a call made outside dispatch() observes a time that is not
\* earlier than the time of the call.
C31_TimeAdvancesAtPopOrDispatch ==
    /\ [][now' # now => PopsFutureEvent \/ EntersDispatch]_vars
    /\ [](\A i \in Runs :
              dispatched[i].queue = "chore"
                  => IF dispatched[i].postStep > 0
                     THEN /\ dispatched[i].time = dispatched[i].postTime
                          /\ dispatched[i].call
                                 = dispatched[dispatched[i].postStep].call
                     ELSE dispatched[i].time >= dispatched[i].postTime)

\* C31 witness: after time has advanced, a dispatched event posted a chore,
\* a future event was queued at a later time, and the chore has run.
C31_Witness ==
    \E i \in Runs :
        /\ dispatched[i].queue = "chore"
        /\ dispatched[i].postStep > 0
        /\ dispatched[i].time > 0
        /\ dispatched[i].dueAtPop = 0
        /\ futureEvents # {}

----------------------------------------------------------------------------
(* Properties of the order flow, checked under SpecLP *)

Notes == 1..Len(notifications)

NotesOf(orderId, type) ==
    {n \in Notes : notifications[n].orderId = orderId /\ notifications[n].type = type}

\* The events still queued in the loop.
Queued == futureEvents \cup {chores[k] : k \in 1..Len(chores)}

\* C4: every order for which onAck has been delivered has received exactly
\* one onTerminated by the time the run ends.
C4_AckedOrdersTerminated ==
    RunEnded =>
        \A n \in Notes :
            notifications[n].type = "ack"
                => Cardinality(NotesOf(notifications[n].orderId, "term")) = 1

\* C5: for each orderId the notifications are onAck, then at most one onFill,
\* then onTerminated: the first is the ack, nothing follows the termination,
\* no two fills, and no fill is still queued once the termination is
\* delivered (so a fill due at the same time is delivered first).
C5_NotificationOrder ==
    /\ \A i, j \in Notes :
           (i < j /\ notifications[i].orderId = notifications[j].orderId)
               => /\ notifications[i].type # "term"
                  /\ notifications[j].type # "ack"
                  /\ ~(notifications[i].type = "fill" /\ notifications[j].type = "fill")
    /\ \A j \in Notes :
           notifications[j].type # "ack"
               => \E i \in NotesOf(notifications[j].orderId, "ack") : i < j
    /\ \A e \in Queued :
           e.event.kind = "fill" => NotesOf(e.event.orderId, "term") = {}

\* C5 witness: an order was acked, filled and terminated, the fill and the
\* termination at the same simulated time.
C5_Witness ==
    \E a, f, t \in Notes :
        /\ notifications[a].type = "ack"
        /\ notifications[f].type = "fill"
        /\ notifications[t].type = "term"
        /\ notifications[a].orderId = notifications[f].orderId
        /\ notifications[a].orderId = notifications[t].orderId
        /\ notifications[f].time = notifications[t].time

SentOf(orderId) == CHOOSE k \in 1..Len(sent) : sent[k].orderId = orderId

\* Nothing for an order is delivered before sendOrder returns, and fills and
\* terminations come exactly outboundDelay after the ack.
C9_Common ==
    /\ \A n \in Notes :
           /\ \E k \in 1..Len(sent) : sent[k].orderId = notifications[n].orderId
           /\ notifications[n].step > sent[SentOf(notifications[n].orderId)].step
    /\ \A n \in Notes :
           notifications[n].type # "ack"
               => \A a \in NotesOf(notifications[n].orderId, "ack") :
                      notifications[n].time
                          = notifications[a].time + settings.outboundDelay

C10_OrderIdsIncrease ==
    \A i, j \in 1..Len(sent) : i < j => sent[i].orderId < sent[j].orderId

\* C10 witness: two orders were sent on different executors.
C10_Witness ==
    \E i, j \in 1..Len(sent) : i < j /\ sent[i].ex # sent[j].ex

----------------------------------------------------------------------------
(* Claims about order processing, checked under SpecOrders *)

Processes == 1..Len(processed)

\* The order of a processed record was delivered no fill, and every
\* termination delivered for it carries the given status.
TerminatedOnlyWith(p, status) ==
    \A i \in 1..Len(notifications) :
        notifications[i].orderId = p.orderId =>
            /\ notifications[i].type # "fill"
            /\ notifications[i].type = "term" => notifications[i].status = status

\* What process() does with an order that must be rejected / must be matched.
RejectedUnmatched(p) ==
    /\ ~p.valid
    /\ ~p.attempted
    /\ p.status = DoneStatusInternalReject
    /\ ~p.fill
    /\ p.positionsAfter = p.positionsBefore
    /\ TerminatedOnlyWith(p, DoneStatusInternalReject)

WithinGap(p) == p.time - p.lastOrderSendTime < p.minOrderGap

AllNotesOf(orderId) ==
    {i \in Notes : notifications[i].orderId = orderId}

\* The first order of its executor, sent at time 0 with the reference
\* settings and processed against the reference book.
FirstAtZero(p) ==
    /\ settings = ReferenceSettings
    /\ ~p.bookNull
    /\ p.order = [orderId |-> p.orderId, side |-> Buy, price |-> NaN,
                  qty |-> ReferenceOrder.qty, tif |-> "IOC"]
    /\ \E i \in 1..Len(sent) :
         /\ sent[i].orderId = p.orderId
         /\ sent[i].time = 0
         /\ \A j \in 1..Len(sent) : sent[j].ex = sent[i].ex => j >= i

\* C12: with inboundDelay = 1ms, outboundDelay = 1ms, minOrderGap = 10s and
\* maxNOP = 1e7, a crossing IOC Buy (price NaN, qty 500000) sent as the
\* executor's first order at time 0 against ask 1e6 @ 1.1002 is acked at 1ms,
\* filled with dealt = +500000 and contra = -550100 at 2ms, and terminated
\* Done at 2ms.
C12_FirstOrderAtZeroFills ==
    \A k \in Processes :
        FirstAtZero(processed[k]) =>
            \A i \in AllNotesOf(processed[k].orderId) :
                LET n == notifications[i]
                IN /\ n.type = "ack" => n.time = 1
                   /\ n.type = "term" =>
                        /\ n.time = 2
                        /\ n.status = DoneStatusDone
                        /\ \E j \in AllNotesOf(processed[k].orderId) :
                             /\ j < i
                             /\ notifications[j].type = "fill"
                             /\ notifications[j].time = 2
                             /\ notifications[j].dealt = ReferenceOrder.qty
                             /\ notifications[j].contra = -550100

\* The time sendOrder was called for a processed order
SentTime(p) ==
    (CHOOSE s \in {sent[i] : i \in 1..Len(sent)} : s.orderId = p.orderId).time

\* C13: when two IOC orders are submitted on the same executor closer
\* together than minOrderGap (a few ms apart with minOrderGap = 10s, both
\* crossing Buys well inside the NOP limit), the first fills normally and the
\* second is terminated InternalReject with no fill and no position change.
C13_SecondWithinGapRejected ==
    settings = ReferenceSettings =>
        \A k1 \in Processes : \A k2 \in Processes :
            LET p1 == processed[k1]
                p2 == processed[k2]
            IN (/\ k1 < k2
                /\ p1.ex = p2.ex
                /\ ~p1.bookNull
                /\ ~p2.bookNull
                /\ \A k \in Processes : processed[k].ex = p1.ex => k >= k1
                /\ SentTime(p2) - SentTime(p1) < settings.minOrderGap)
               => /\ p1.fill
                  /\ p1.status = DoneStatusDone
                  /\ RejectedUnmatched(p2)

\* The order of a validated record does not cross the top it was matched
\* against: a Buy priced below the ask, a Sell priced above the bid (prices
\* are whole numbers, further apart than the tolerance when they differ).
DoesNotCross(p) ==
    /\ ~IsNaN(p.order.price)
    /\ ~IsNaN(p.topPrice)
    /\ IF p.order.side = Buy
       THEN p.order.price < p.topPrice
       ELSE p.order.price > p.topPrice

\* C14: a validated IOC order that does not cross the side-appropriate top
\* of book, or whose top price is NaN, is terminated with Done, produces no
\* onFill and leaves all positions unchanged; it is never reported as a
\* reject.
C14_NoCrossIsDone ==
    \A k \in Processes :
        LET p == processed[k]
        IN (p.valid /\ (DoesNotCross(p) \/ IsNaN(p.topPrice))) =>
              /\ p.status = DoneStatusDone
              /\ ~p.gate
              /\ ~p.fill
              /\ p.positionsAfter = p.positionsBefore
              /\ TerminatedOnlyWith(p, DoneStatusDone)

\* A Sell priced above the bid, or an order matched against a NaN top, has
\* been validated and its termination delivered.
C14_Witness ==
    \E k \in Processes :
        LET p == processed[k]
        IN /\ p.valid
           /\ \/ DoesNotCross(p) /\ p.order.side = Sell
              \/ IsNaN(p.topPrice)
           /\ \E i \in AllNotesOf(p.orderId) : notifications[i].type = "term"

\* C15: a matched order is accepted if and only if newNOP < currentNOP or
\* newNOP <= maxNOP, where newNOP is the NOP with (dealt, contra) tentatively
\* applied to base and quote; on failure the order is terminated
\* InternalReject, no fill is enqueued, and the positions after the check
\* equal the positions before it.
C15_NOPGate ==
    \A k \in Processes :
        LET p == processed[k]
        IN p.gate =>
              /\ p.fill <=> (\/ RLt(p.newNOP, p.currentNOP)
                             \/ RLe(p.newNOP, RInt(p.maxNOP)))
              /\ p.positionsAfter = p.positionsBefore
              /\ IF p.fill
                 THEN p.status = DoneStatusDone
                 ELSE /\ p.status = DoneStatusInternalReject
                      /\ TerminatedOnlyWith(p, DoneStatusInternalReject)

\* No fill is scheduled and not yet applied.
NoFillPending == \A e \in Queued : e.event.kind # "fill"

\* Every line published so far for a symbol carried the same book: fair
\* prices have not moved since the start of the run.
MarketUnchanged ==
    \A r \in 1..Len(replayables) :
        \A i \in 1..Len(replayables[r].published) :
            \A j \in 1..Len(replayables[r].published) :
                replayables[r].published[i].symbol = replayables[r].published[j].symbol
                    => replayables[r].published[i].book = replayables[r].published[j].book

\* C16: at any quiescent point (no fill scheduled but not yet applied), after
\* any sequence of orders on any executors, several in flight at once
\* included, getNOP(positions) <= max(previousNOP, maxNOP), previousNOP being
\* the NOP at the previous quiescent point.  The NOP is 0 at the start, so
\* while fair prices do not move the NOP at a quiescent point never exceeds
\* maxNOP.
C16_NOPSafety ==
    (NoFillPending /\ MarketUnchanged) =>
        ~RLt(RInt(settings.maxNOP), getNOP(St))

\* The step taken is the dispatch of one fill event.
FillStep ==
    /\ Len(dispatched') = Len(dispatched) + 1
    /\ Last(dispatched').kind = "fill"

\* The calls the step made on positionsPub to publish entries and to end
\* the batch, in call order
PositionsPubCalls ==
    LET IsCall(e) == e.who = PositionsPub /\ e.op \in {"publish", "endBatch"}
        Call3(e) == <<e.op, e.topic>>
        new == SubSeq(pubLog', Len(pubLog) + 1, Len(pubLog'))
        calls == SelectSeq(new, IsCall)
    IN [i \in 1..Len(calls) |-> Call3(calls[i])]

\* C17: each fill event performs, in this order and with no other event in
\* between: add dealt to the base position and contra to the quote position,
\* publish the base position entry, publish the quote position entry,
\* deliver onFill, then call positionsPub.endBatch() exactly once; so when a
\* position subscriber receives endOfBatch both positions hold the post-fill
\* values and onFill has been delivered.
C17_FillEventOrder ==
    [][FillStep =>
        LET n == Last(notifications')
            base == getBaseAsset(n.ex[1])
            quote == getQuoteAsset(n.ex[1])
        IN /\ Len(notifications') = Len(notifications) + 1
           /\ n.type = "fill"
           /\ positions' = [positions EXCEPT ![base] = FAdd(@, n.dealt),
                                             ![quote] = FAdd(@, n.contra)]
           /\ PositionsPubCalls =
                  << <<"publish", base>>, <<"publish", quote>>, <<"endBatch", <<>> >> >>
           /\ \A i \in (Len(pubLog) + 1)..Len(pubLog') :
                /\ pubLog'[i].positions = positions'
                /\ pubLog'[i].op \in {"publish", "update"} =>
                       pubLog'[i].notes = Len(notifications)
                /\ pubLog'[i].op \in {"endBatch", "endOfBatch"} =>
                       pubLog'[i].notes = Len(notifications')
    ]_vars

\* A fill event has run and the strategy, subscribed to both positions, was
\* told the end of its batch.
C17_Witness ==
    \E i \in 1..Len(pubLog) :
        /\ pubLog[i].op = "endOfBatch"
        /\ pubLog[i].who = Strategy
        /\ pubLog[i].step > 0
        /\ dispatched[pubLog[i].step].kind = "fill"
        /\ \E j \in 1..(i - 1) :
             /\ pubLog[j].op = "update"
             /\ pubLog[j].who = Strategy
             /\ pubLog[j].step = pubLog[i].step

\* std::min over quantities that are numbers
MinQty(a, b) == IF b < a THEN b ELSE a

\* C18: for every fill, dealt = sideSign * min(qtyAtTop, order.qty) and
\* contra = -dealt * topPrice (the top-of-book price, never the order's
\* limit): |dealt| never exceeds the order quantity, a Buy has dealt > 0 and
\* contra < 0, and a Sell has dealt < 0 and contra > 0 (for positive prices).
C18_FillAmounts ==
    /\ \A k \in Processes :
         LET p == processed[k]
         IN p.fill =>
               /\ p.dealt = sideToSign(p.order.side) * MinQty(p.qtyAtTop, p.order.qty)
               /\ p.contra = FMul(FNeg(p.dealt), p.topPrice)
               /\ p.dealt * sideToSign(p.order.side) <= p.order.qty
               /\ p.order.side = Buy => p.dealt > 0
               /\ p.order.side = Sell => p.dealt < 0
               /\ p.topPrice > 0 => p.contra * sideToSign(p.order.side) < 0
    /\ \A i \in Notes :
         notifications[i].type = "fill" =>
            \E k \in Processes :
               /\ processed[k].orderId = notifications[i].orderId
               /\ processed[k].fill
               /\ notifications[i].dealt = processed[k].dealt
               /\ notifications[i].contra = processed[k].contra

\* onFill was delivered for a Sell whose limit is below the bid it was
\* filled at, and for less than the order's quantity.
C18_Witness ==
    \E k \in Processes :
        LET p == processed[k]
        IN /\ p.fill
           /\ p.order.side = Sell
           /\ FLt(p.order.price, p.topPrice)
           /\ p.qtyAtTop < p.order.qty
           /\ \E i \in AllNotesOf(p.orderId) : notifications[i].type = "fill"

\* The value of an asset's slot; a slot not yet created holds no position.
PositionOf(pos, asset) == IF asset \in DOMAIN pos THEN pos[asset] ELSE 0

\* C19: position slots change only inside fill events: between any two
\* consecutive dispatched events the positions are changed by sendOrder,
\* process (ack, validation, NOP gate), termination and market-data events
\* by nothing, and by a fill event by exactly +dealt on base and +contra on
\* quote with every other asset unchanged.
C19_PositionsChangeOnlyInFills ==
    [][\A asset \in DOMAIN positions' :
         IF FillStep
         THEN LET n == Last(notifications')
              IN positions'[asset] =
                   IF asset = getBaseAsset(n.ex[1])
                   THEN FAdd(PositionOf(positions, asset), n.dealt)
                   ELSE IF asset = getQuoteAsset(n.ex[1])
                   THEN FAdd(PositionOf(positions, asset), n.contra)
                   ELSE PositionOf(positions, asset)
         ELSE positions'[asset] = PositionOf(positions, asset)
    ]_vars

\* What the onFill delivered as notification n added to an asset's slot
FillAmount(n, asset) ==
    IF notifications[n].type # "fill" THEN 0
    ELSE IF getBaseAsset(notifications[n].ex[1]) = asset
         THEN notifications[n].dealt
         ELSE IF getQuoteAsset(notifications[n].ex[1]) = asset
              THEN notifications[n].contra
              ELSE 0

\* The sum, accumulated in delivery order as the slot is, of the amounts of
\* the first k notifications for an asset
RECURSIVE FillSum(_, _)
FillSum(asset, k) ==
    IF k = 0 THEN 0
    ELSE IF FillAmount(k, asset) = 0
         THEN FillSum(asset, k - 1)
         ELSE FAdd(FillSum(asset, k - 1), FillAmount(k, asset))

\* The publishes of an asset's position entry so far
PositionPublishes(asset) ==
    {i \in 1..Len(pubLog) :
        /\ pubLog[i].op = "publish"
        /\ pubLog[i].who = PositionsPub
        /\ pubLog[i].topic = asset}

\* The value of the slot when its entry was last published
LastPublished(asset) ==
    LET last == CHOOSE i \in PositionPublishes(asset) :
                    \A j \in PositionPublishes(asset) : j <= i
    IN pubLog[last].positions[asset]

\* C35: at every event boundary, each asset's position equals the sum of
\* dealt over all delivered onFill calls on symbols whose base is that asset
\* plus the sum of contra over all delivered onFill calls on symbols whose
\* quote is that asset, and the value last published to the position
\* subscribers for an asset equals its slot value.
C35_PositionsAreFillSums ==
    \A asset \in DOMAIN positions :
        /\ positions[asset] = FillSum(asset, Len(notifications))
        /\ PositionPublishes(asset) # {}
               => LastPublished(asset) = positions[asset]

\* The orders processed on the executor of p before p that passed validation
ValidBefore(p) ==
    {q \in 1..(p - 1) : processed[q].ex = processed[p].ex /\ processed[q].valid}

\* The time of the last order before p that passed validation on p's
\* executor, 0 (the initial value) when there is none
LastValidTime(p) ==
    IF ValidBefore(p) = {} THEN 0
    ELSE processed[CHOOSE q \in ValidBefore(p) :
                       \A x \in ValidBefore(p) : x <= q].time

\* A step changes the lastOrderSendTime of an executor only by processing an
\* order on that executor which passes validation.
StampedOnlyByValidOrders ==
    \A ex \in DOMAIN executors :
        executors'[ex].lastOrderSendTime # executors[ex].lastOrderSendTime
            => /\ Len(processed') = Len(processed) + 1
               /\ Last(processed').ex = ex
               /\ Last(processed').valid

\* C36: lastOrderSendTime is per executor and is set to the processing time
\* by exactly the orders that pass validation, whether they then fill, fail
\* to cross or are rejected by the NOP gate; orders that fail validation
\* leave it unchanged, and orders on one executor never affect the min-gap
\* check of another executor.
C36_LastOrderSendTimePerExecutor ==
    /\ [][StampedOnlyByValidOrders]_vars
    /\ [](\A p \in Processes :
              /\ processed[p].lastOrderSendTime = LastValidTime(p)
              /\ processed[p].lastOrderSendTimeAfter
                     = IF processed[p].valid
                       THEN processed[p].time
                       ELSE processed[p].lastOrderSendTime
              /\ processed[p].valid => ~WithinGap(processed[p])
              /\ (/\ ~processed[p].bookNull
                  /\ processed[p].order.tif = "IOC"
                  /\ FLt(0, processed[p].order.qty)
                  /\ ~WithinGap(processed[p])) => processed[p].valid)

\* C36 witness: an order passed validation on one executor and, less than
\* the minimum gap later, an order passed validation on another executor.
C36_Witness ==
    \E p, q \in Processes :
        /\ p < q
        /\ processed[p].ex # processed[q].ex
        /\ processed[p].valid
        /\ processed[q].valid
        /\ processed[q].time - processed[p].time < settings.minOrderGap
        /\ executors[processed[p].ex].lastOrderSendTime = processed[p].time
        /\ executors[processed[q].ex].lastOrderSendTime = processed[q].time

\* The CacheSubscriber of the market data had been notified of the symbol
\* before the n-th sendOrder call, which therefore finds a cached record.
FoundCached(n) ==
    \E i \in 1..sent[n].logged :
        /\ pubLog[i].op = "notify"
        /\ pubLog[i].who = MdCache
        /\ pubLog[i].topic = sent[n].ex[1]

\* The sendOrder calls on the executor of p made before p is validated
SentBefore(p) ==
    {n \in 1..Len(sent) :
        sent[n].ex = processed[p].ex /\ sent[n].step <= processed[p].step}

\* The cache was notified of p's symbol between the sendOrder call of p and
\* the event that processed it.
TickDuringDelay(p) ==
    \E i \in 1..Len(pubLog) :
        /\ pubLog[i].op = "notify"
        /\ pubLog[i].who = MdCache
        /\ pubLog[i].topic = processed[p].ex[1]
        /\ pubLog[i].step < processed[p].step
        /\ i > sent[SentOf(processed[p].orderId)].logged

\* A step changes the book of an executor only from null, only in a
\* sendOrder call on that executor, and to the cached record of its symbol.
ResolvedOnlyInSendOrder ==
    \A ex \in DOMAIN executors' :
        LET old == IF ex \in DOMAIN executors THEN executors[ex].book ELSE <<>>
        IN executors'[ex].book # old
               => /\ old = <<>>
                  /\ \E n \in (Len(sent) + 1)..Len(sent') : sent'[n].ex = ex
                  /\ ex[1] \in DOMAIN caches'[MdCache]
                  /\ executors'[ex].book = <<caches'[MdCache][ex[1]]>>

\* C37: the executor's book reference is resolved only inside sendOrder and
\* only while it is still null: an order processed when no sendOrder call on
\* its executor has yet found a cached record for the symbol is terminated
\* InternalReject, with nothing matched, even if a tick for the symbol
\* arrived during the inbound delay; once resolved, the executor keeps the
\* same record for all later orders.
C37_BookResolvedInSendOrder ==
    /\ [][ResolvedOnlyInSendOrder]_vars
    /\ [](\A p \in Processes :
              /\ processed[p].bookNull
                     <=> \A n \in SentBefore(p) : ~FoundCached(n)
              /\ processed[p].bookNull => RejectedUnmatched(processed[p]))

\* C37 witness: an order was sent when the cache had no record of its
\* symbol, a tick for the symbol arrived during the inbound delay, and the
\* order was processed with a null book and terminated InternalReject.
C37_Witness ==
    \E p \in Processes :
        /\ processed[p].bookNull
        /\ TickDuringDelay(p)
        /\ \E i \in 1..Len(notifications) :
               /\ notifications[i].orderId = processed[p].orderId
               /\ notifications[i].type = "term"
               /\ notifications[i].status = DoneStatusInternalReject

----------------------------------------------------------------------------
(* Claims about the replayer and its registration *)

\* The step taken is the dispatch of one event of a replayable.
ReplayStep ==
    /\ Len(dispatched') = Len(dispatched) + 1
    /\ Last(dispatched').kind = "replay"

\* The records a replayer has not published yet, the lookahead first
Stream(R) ==
    IF getNextEventTime(R) < TimestampMax THEN <<R.nextLine>> \o R.input ELSE <<>>

\* The length of the longest run of records at the head of a stream that
\* share the timestamp of the first
RunLength(stream) ==
    CHOOSE n \in 1..Len(stream) :
        /\ \A i \in 1..n : stream[i].timestamp = stream[1].timestamp
        /\ n = Len(stream) \/ stream[n + 1].timestamp # stream[1].timestamp

\* What publish() records for a line of the stream published at time t
PublishedAt(line, t) ==
    [timestamp |-> line.timestamp, symbol |-> line.symbol, book |-> line.book,
     time |-> t]

IsPublisherCall(e) == e.who = MdPub /\ e.op \in {"publish", "endBatch"}

\* The publish and endBatch calls the step made on the replayer's publisher
MdPubCalls ==
    LET new == SubSeq(pubLog', Len(pubLog) + 1, Len(pubLog'))
        calls == SelectSeq(new, IsPublisherCall)
    IN [i \in 1..Len(calls) |-> <<calls[i].op, calls[i].topic>>]

\* Replayer r published the run at the head of its stream and ended the batch.
PublishedRun(r, stream, n) ==
    /\ replayables'[r].published
           = replayables[r].published
                 \o [i \in 1..n |-> PublishedAt(stream[i], now')]
    /\ Stream(replayables'[r]) = SubSeq(stream, n + 1, Len(stream))
    /\ MdPubCalls = [i \in 1..n |-> <<"publish", stream[i].symbol>>]
                        \o << <<"endBatch", <<>> >> >>

\* C25: one dispatchNextEvent publishes exactly the longest run of
\* consecutive records that share the lookahead's timestamp, one publish per
\* record in stream order, and then calls endBatch on the publisher exactly
\* once; a replayer whose stream is exhausted publishes nothing and calls no
\* endBatch.
C25_BatchIsMaximalRun ==
    /\ [][ReplayStep =>
            \E r \in 1..Len(replayables) :
                /\ PublishedRun(r, Stream(replayables[r]),
                                RunLength(Stream(replayables[r])))
                /\ \A o \in 1..Len(replayables) :
                       o # r => replayables'[o] = replayables[o]]_vars
    /\ [](\A r \in 1..Len(replayables) :
              Stream(replayables[r]) = <<>> => dispatchNextEvent(St, r) = St)

\* A replayer published two records of one timestamp in one batch, a record
\* of a later timestamp in another, and is exhausted.
C25_Witness ==
    \E r \in 1..Len(replayables) :
        /\ Stream(replayables[r]) = <<>>
        /\ \E i \in 1..(Len(replayables[r].published) - 2) :
               LET pd == replayables[r].published
               IN /\ pd[i].timestamp = pd[i + 1].timestamp
                  /\ pd[i].time = pd[i + 1].time
                  /\ pd[i + 1].timestamp < pd[i + 2].timestamp
                  /\ pd[i + 1].time < pd[i + 2].time

\* The dispatch events of replayable r that are queued in the loop
PendingDispatches(r) ==
    {e \in Queued : e.event.kind = "replay" /\ e.event.r = r}

\* No record of replayable r was older than the loop's time at registration.
NothingSkipped(r) == replayables[r].skipped = <<>>

\* After the step, a replayable with records left is armed by an event posted
\* in the step at max(next - now, 0).
Rearmed(r) ==
    LET next == getNextEventTime(replayables'[r])
    IN next < TimestampMax =>
           \E e \in PendingDispatches(r)' :
               /\ e.postStep = Len(dispatched')
               /\ e.delta = IF next > now' THEN next - now' ELSE 0

PublishedAtTimestamp(r) ==
    \A i \in 1..Len(replayables[r].published) :
        replayables[r].published[i].time = replayables[r].published[i].timestamp

\* C26: after each dispatch of a replayable the loop posts its next dispatch
\* at max(next - now, 0); every record of a stream with no record older than
\* the loop's time at registration is published while getEventTime() equals
\* the record's timestamp; a replayable never has more than one dispatch
\* event queued in the loop.
C26_PublishedAtTimestamp ==
    /\ [][ReplayStep =>
            \A r \in 1..Len(replayables) :
                replayables'[r] # replayables[r] => Rearmed(r)]_vars
    /\ [](\A r \in 1..Len(replayables) :
              /\ NothingSkipped(r) => PublishedAtTimestamp(r)
              /\ Cardinality(PendingDispatches(r)) <= 1)

\* The step registers a replayable with the loop.
RegistrationStep == Len(replayables') = Len(replayables) + 1

IsOlder(line) == line.timestamp < now
IsNotOlder(line) == line.timestamp >= now

\* Replayer R, just registered over inputData, discarded the records older
\* than the loop's time and kept the others.
Skipped(R, inputData) ==
    /\ R.skipped = SelectSeq(inputData, IsOlder)
    /\ Stream(R) = SelectSeq(inputData, IsNotOlder)
    /\ getNextEventTime(R) = IF Stream(R) = <<>>
                             THEN TimestampMax
                             ELSE Stream(R)[1].timestamp
    /\ R.published = <<>>

\* C27: when a replayer is registered the records of its stream stamped
\* strictly before the loop's time are discarded with no createEntry, publish
\* or endBatch call, the records stamped at the loop's time or later are all
\* retained, and getNextEventTime() then returns the timestamp of the first
\* retained record, or the maximum when none is left.
C27_SkipOnRegistration ==
    [][RegistrationStep =>
          /\ now' = now
          /\ pubLog' = pubLog
          /\ \E inputData \in LoopInputs : Skipped(Last(replayables'), inputData)]_vars

\* A replayer registered after the loop's time had advanced discarded a
\* record and kept another.
C27_Witness ==
    \E r \in 1..Len(replayables) :
        /\ replayables[r].skipped # <<>>
        /\ Stream(replayables[r]) # <<>>
        /\ replayables[r].published = <<>>

\* The registered replayables that have not reported TimestampNs::max() yet
Unexhausted ==
    {r \in 1..Len(replayables) :
        getNextEventTime(replayables[r]) < TimestampMax}

\* C33: the loop never invokes stop(0) on behalf of replayable completion
\* while some registered replayable still has a finite next event time: for
\* any order of add() calls mixing exhausted and non-exhausted replayables,
\* a step in which onReplayableDone calls stop(0) leaves no registered
\* replayable with a finite next event time, and the active count equals the
\* number of registered replayables that have not reported MAX and is never
\* negative.
C33_StopOnlyWhenAllExhausted ==
    /\ [][stopCalls' > stopCalls =>
              \A r \in 1..Len(replayables') :
                  getNextEventTime(replayables'[r]) = TimestampMax]_vars
    /\ [](/\ activeCount = Cardinality(Unexhausted)
          /\ activeCount >= 0)

----------------------------------------------------------------------------
(* Claims about main's run as a whole, checked under SpecLP *)

\* A queued event as the program holds it
FutureEventOf(e) ==
    [eventId |-> e.eventId, expireTime |-> e.expireTime, event |-> e.event]

ChoreOf(e) == [eventId |-> e.eventId, event |-> e.event]

DispatchedOf(d) == [kind |-> d.kind, eventId |-> d.eventId, time |-> d.time]

\* The state of the program and what it has put out so far: the events run,
\* the calls on publishers and subscribers, the notifications, the positions.
Observable(S) ==
    [now |-> S.now,
     futureEvents |->
         [x \in {FutureEventOf(e) : e \in S.futureEvents} |->
             Cardinality({e \in S.futureEvents : FutureEventOf(e) = x})],
     chores |-> [k \in 1..Len(S.chores) |-> ChoreOf(S.chores[k])],
     dispatched |-> [k \in 1..Len(S.dispatched) |-> DispatchedOf(S.dispatched[k])],
     replayables |-> S.replayables, activeCount |-> S.activeCount,
     lastEventId |-> S.lastEventId, enable |-> S.enable,
     lastOrderId |-> S.lastOrderId, executors |-> S.executors,
     positions |-> S.positions, sent |-> S.sent,
     notifications |-> S.notifications, consumers |-> S.consumers,
     proxies |-> S.proxies, caches |-> S.caches, pubLog |-> S.pubLog,
     processed |-> S.processed]

\* The loop's next iteration when it takes p, one of the events it may take
StepResult(S, p) ==
    IF p.queue = "chore"
    THEN dispatchChores(S)
    ELSE dispatchNextFutureEvent(S, p.e)

\* Taking p or q, the next iteration of the loop leads to the same state and
\* outputs when the strategy's callbacks make the calls of script.
SameResult(script, p, q) ==
    Observable(StepResult([St EXCEPT !.script = script], p))
        = Observable(StepResult([St EXCEPT !.script = script], q))

\* The statements of main and of the loop that can be the next one to run
Controls ==
    <<AtReplayer, AtPrime, AtDispatch, AtAttach,
      running /\ ~LoopCondition(St), running /\ LoopCondition(St)>>

\* The state of the program without the record of the calls on the fabric
ProgramState(S) == [Observable(S) EXCEPT !.pubLog = <<>>]

\* Whichever way the proxies walk their topic maps in add, attaching a
\* strategy constructed with the calls of script leads to the same state.
SameAttach(script, o1, o2) ==
    ProgramState(Attach(St, script, o1[1], o1[2]))
        = ProgramState(Attach(St, script, o2[1], o2[2]))

\* C28: for a fixed input stream, fixed settings and a fixed strategy the run
\* has one possible continuation in every state: at most one statement of
\* main or of the loop can run next, and whatever calls the strategy's
\* callbacks make, the next iteration of the loop leads to one state of the
\* program and one sequence of dispatched events, publisher calls,
\* notifications and positions.  The order in which a proxy walks its topic
\* map in add is the one of the build: it decides the order of the notify
\* calls add makes and nothing else of the state add leads to.
C28_Deterministic ==
    /\ Cardinality({i \in 1..Len(Controls) : Controls[i]}) <= 1
    /\ AtAttach =>
           \A script \in SeqsUpTo(LPCalls, MaxScript) :
               \A o1, o2 \in AttachOrders(AfterConstructor(St, script)) :
                   o1 # o2 => SameAttach(script, o1, o2)
    /\ (running /\ LoopCondition(St)) =>
           \A p, q \in NextEvents(St) :
               p # q => \A script \in SeqsUpTo(LPCalls, MaxScript) :
                            SameResult(script, p, q)

\* The loop is about to pick among two future events due at the same time,
\* the fill and the termination of an order.
C28_Witness ==
    /\ running
    /\ LoopCondition(St)
    /\ chores = <<>>
    /\ \E a, b \in futureEvents :
           /\ a.event.kind = "fill"
           /\ b.event.kind = "term"
           /\ a.expireTime = b.expireTime
           /\ \A x \in futureEvents : a.expireTime <= x.expireTime

\* C29: getOrderSender called again with the symbol and the observer of an
\* existing executor returns that executor and changes nothing (its book and
\* its lastOrderSendTime are the ones the earlier calls left); executors of
\* different (symbol, observer) pairs are distinct objects; an executor is
\* never removed from the simulator nor replaced by another object.
C29_OrderSenderPerPair ==
    /\ [][\A k \in DOMAIN executors :
              /\ k \in DOMAIN executors'
              /\ executors'[k].id = executors[k].id]_vars
    /\ [](\A k \in DOMAIN executors : getOrderSender(St, k[1], k[2]) = St)
    /\ [](\A k1, k2 \in DOMAIN executors :
              k1 # k2 => executors[k1].id # executors[k2].id)

\* Two orders went through the executor of one pair: the second call of
\* getOrderSender found the book and the lastOrderSendTime the first order
\* had set.
C29_Witness ==
    \E i, j \in 1..Len(sent) :
        /\ i < j
        /\ sent[i].ex = sent[j].ex
        /\ sent[i].time < sent[j].time
        /\ executors[sent[i].ex].lastOrderSendTime > 0
        /\ executors[sent[i].ex].book # <<>>

\* main has returned from its second dispatch after replaying a stream of one
\* tick to a strategy that made no call.
SingleTickRunEnded ==
    /\ RunEnded
    /\ Len(replayables) = 1
    /\ Len(replayables[1].published) = 1
    /\ replayables[1].skipped = <<>>
    /\ Stream(replayables[1]) = <<>>
    /\ sent = <<>>
    /\ userPosts = 0
    /\ userStops = 0

\* The calls of one kind a subscriber has received
Received(who, op) ==
    {k \in 1..Len(pubLog) : pubLog[k].op = op /\ pubLog[k].who = who}

\* C30: when main has run with an input stream of one tick and a strategy
\* that does nothing, the cache in front of the market data proxy and the
\* strategy attached after the priming dispatch have each received exactly
\* one notify and exactly one endOfBatch, and the cache holds the symbol of
\* the tick.
C30_SingleTick ==
    SingleTickRunEnded =>
        /\ \A who \in {MdCache, Strategy} :
               /\ Cardinality(Received(who, "notify")) = 1
               /\ Cardinality(Received(who, "endOfBatch")) = 1
        /\ replayables[1].published[1].symbol \in DOMAIN caches[MdCache]

\* The input stream of a replayer that skipped nothing, as it was given
WholeStream(R) ==
    [i \in 1..Len(R.published) |->
        [timestamp |-> R.published[i].timestamp,
         symbol |-> R.published[i].symbol,
         book |-> R.published[i].book]] \o Stream(R)

\* The priming dispatch has returned.
PrimingReturned == dispatchCalls >= 2 \/ (dispatchCalls = 1 /\ ~running)

\* The dispatch() call a logged call was made in, 0 outside dispatch()
CallOf(e) == IF e.step = 0 THEN 0 ELSE dispatched[e.step].call

\* The publish calls made on the replayer's publisher, in order
MdPublishes ==
    SelectSeq(pubLog, LAMBDA e : e.op = "publish" /\ e.who = MdPub)

\* The calls the strategy received for market data while events were
\* dispatched
StrategyMdCalls(op) ==
    {k \in Received(Strategy, op) :
        /\ pubLog[k].step > 0
        /\ dispatched[pubLog[k].step].kind = "replay"}

\* The first batch (the first n records of the stream) was published in the
\* priming dispatch, at the time of its first record, before the stop fired.
FirstBatchInPriming(stream, n) ==
    /\ Len(replayables[1].published) >= n
    /\ Len(MdPublishes) >= n
    /\ \A i \in 1..n :
           /\ replayables[1].published[i] = PublishedAt(stream[i], stream[1].timestamp)
           /\ MdPublishes[i].topic = stream[i].symbol
           /\ CallOf(MdPublishes[i]) = 1
           /\ \E j \in Runs :
                  /\ dispatched[j].kind = "stop"
                  /\ dispatched[j].call = 1
                  /\ MdPublishes[i].step < j
    /\ \A i \in (n + 1)..Len(MdPublishes) : CallOf(MdPublishes[i]) = 2

\* The cache, attached before the priming dispatch, received the first batch
\* in it: a notify for each of its symbols and an endOfBatch.
CacheReceivedFirstBatch(stream, n) ==
    /\ \A i \in 1..n :
           \E k \in Received(MdCache, "notify") :
               /\ pubLog[k].topic = stream[i].symbol
               /\ pubLog[k].step = MdPublishes[1].step
    /\ \E k \in Received(MdCache, "endOfBatch") :
           pubLog[k].step = MdPublishes[1].step

\* The strategy was told of the symbols of the first batch by addBack and
\* received nothing in the priming dispatch; the updates and batch ends it
\* receives are those of the later batches.
StrategyMissedFirstBatch(stream, n) ==
    /\ \A i \in 1..n :
           \E k \in Received(Strategy, "notify") :
               /\ pubLog[k].topic = stream[i].symbol
               /\ pubLog[k].step = 0
    /\ \A k \in 1..Len(pubLog) : pubLog[k].who = Strategy => CallOf(pubLog[k]) # 1
    /\ Cardinality(StrategyMdCalls("update")) = Len(MdPublishes) - n
    /\ Cardinality(StrategyMdCalls("endOfBatch"))
           = Cardinality({MdPublishes[i].step : i \in (n + 1)..Len(MdPublishes)})

\* C38: the priming dispatch (a zero-delta chore that calls stop(0), then
\* dispatch()) leaves getEventTime() equal to the first market-data timestamp
\* and delivers the whole first market-data batch to the subscribers already
\* attached before the stop takes effect; a strategy attached afterwards is
\* notified of the already-known topics by addBack but never receives that
\* first batch's publish or endOfBatch.
C38_PrimingDispatch ==
    (/\ PrimingReturned
     /\ Len(replayables) = 1
     /\ WholeStream(replayables[1]) # <<>>)
        => /\ (dispatchCalls = 1 /\ ~running)
                  => getEventTime(St) = WholeStream(replayables[1])[1].timestamp
           /\ FirstBatchInPriming(WholeStream(replayables[1]),
                                  RunLength(WholeStream(replayables[1])))
           /\ CacheReceivedFirstBatch(WholeStream(replayables[1]),
                                      RunLength(WholeStream(replayables[1])))
           /\ attached =>
                  StrategyMissedFirstBatch(WholeStream(replayables[1]),
                                           RunLength(WholeStream(replayables[1])))

\* C38 witness: main has run over a stream whose first batch has two records
\* and which has a later record, and the strategy received the later one.
C38_Witness ==
    /\ RunEnded
    /\ Len(replayables) = 1
    /\ Len(replayables[1].published) = 3
    /\ RunLength(WholeStream(replayables[1])) = 2
    /\ Cardinality(StrategyMdCalls("update")) = 1
    /\ Cardinality(Received(Strategy, "notify")) >= 2

\* The step taken is the dispatch of an event of the order flow.
OrderStep ==
    /\ Len(dispatched') = Len(dispatched) + 1
    /\ Last(dispatched').kind \in {"process", "fill", "term"}

\* The market-data updates of a symbol published before dispatch step k
UpdatesBefore(symbol, k) ==
    {i \in 1..Len(MdPublishes) :
        MdPublishes[i].topic = symbol /\ MdPublishes[i].step < k}

\* The top of book of p's symbol as the replayer last published it before p
\* was processed
BookInForce(p) ==
    LET I == UpdatesBefore(processed[p].ex[1], processed[p].step)
    IN replayables[1].published[CHOOSE i \in I : \A j \in I : j <= i].book

\* No market-data update of p's symbol was published between the processing
\* of p and of q.
NoUpdateBetween(p, q) ==
    UpdatesBefore(processed[p].ex[1], processed[p].step)
        = UpdatesBefore(processed[q].ex[1], processed[q].step)

\* C39: order processing and fills never modify the top-of-book records:
\* liquidity is not depleted, so any number of orders processed between two
\* market-data updates of a symbol are each matched against the same full
\* top-of-book size and price, those of the last update.
C39_BookNotDepleted ==
    /\ [][OrderStep =>
              \A r \in 1..Len(replayables) :
                  replayables'[r].records = replayables[r].records]_vars
    /\ [](\A p \in Processes :
              processed[p].attempted
                  => /\ processed[p].qtyAtTop
                            = qtyAtTop(processed[p].order, BookInForce(p))
                     /\ processed[p].topPrice
                            = topPrice(processed[p].order, BookInForce(p)))

\* C39 witness: two orders on the same side of one symbol were processed with
\* no update of the symbol in between, the first was filled before the second
\* was processed, and the second was matched against the same size and price.
C39_Witness ==
    \E p, q \in Processes :
        /\ p < q
        /\ processed[p].ex[1] = processed[q].ex[1]
        /\ processed[p].order.side = processed[q].order.side
        /\ processed[p].fill
        /\ processed[q].attempted
        /\ NoUpdateBetween(p, q)
        /\ \E n \in Notes :
               /\ notifications[n].type = "fill"
               /\ notifications[n].orderId = processed[p].orderId
               /\ notifications[n].step < processed[q].step
        /\ processed[q].qtyAtTop = processed[p].qtyAtTop
        /\ processed[q].topPrice = processed[p].topPrice

----------------------------------------------------------------------------
(* Claims about the Proxy and its subscribers (SpecProxy) *)

\* Whether the subscriber of the k-th call was notified of a topic since the
\* endOfBatch it received before (or since the start).
NotifiedSince(k) ==
    \E j \in 1..(k - 1) :
        /\ pubLog[j].op = "notify"
        /\ pubLog[j].who = pubLog[k].who
        /\ \A i \in (j + 1)..(k - 1) :
               ~(pubLog[i].op = "endOfBatch" /\ pubLog[i].who = pubLog[k].who)

\* C21: every endOfBatch a Subscriber receives is preceded by at least one
\* notify to that subscriber since the endOfBatch it received before (or
\* since the start).
C21_BatchCoherence ==
    \A k \in 1..Len(pubLog) :
        pubLog[k].op = "endOfBatch" => NotifiedSince(k)

\* A call made from outside the fabric: by the upstream publisher or by the
\* wiring; the calls logged after it, up to the next one, are made within it.
IsRoot(i) == pubLog[i].who = MdPub \/ pubLog[i].op \in {"addFront", "addBack"}

GroupEnd(k) ==
    CHOOSE n \in k..Len(pubLog) :
        /\ \A i \in (k + 1)..n : ~IsRoot(i)
        /\ n = Len(pubLog) \/ IsRoot(n + 1)

IsDownstreamCall(e, op) == e.op = op /\ e.who \in Downstream

\* The downstream publishers reached by the k-th call with calls of one
\* kind, in the order they are reached
Reached(k, op) ==
    LET group == SubSeq(pubLog, k + 1, GroupEnd(k))
        calls == SelectSeq(group, LAMBDA e : IsDownstreamCall(e, op))
    IN [i \in 1..Len(calls) |-> calls[i].who]

\* The k-th call is the upstream publisher's first createEntry of its topic
Announces(k) ==
    /\ pubLog[k].who = MdPub
    /\ pubLog[k].op = "createEntry"
    /\ \A j \in 1..(k - 1) :
           ~(pubLog[j].who = MdPub /\ pubLog[j].op = "createEntry"
                 /\ pubLog[j].topic = pubLog[k].topic)

Updates(k) == pubLog[k].who = MdPub /\ pubLog[k].op = "publish"

\* Whether publisher d was added to the proxy before the k-th call, by op
AddedBefore(d, op, k) ==
    \E j \in 1..(k - 1) : pubLog[j].op = op /\ pubLog[j].who = d

FrontBeforeBack(k, op) ==
    LET reached == Reached(k, op)
    IN \A i, j \in 1..Len(reached) :
           (AddedBefore(reached[i], "addFront", k)
                /\ AddedBefore(reached[j], "addBack", k)) => i < j

\* The k-th call tells the back-attached user subscriber of a topic or of
\* an update while the cache's publisher is attached in front.
BackSubscriberTold(k) ==
    /\ pubLog[k].op \in {"notify", "update"}
    /\ pubLog[k].who = Sub
    /\ AddedBefore(MdStrategyPub, "addBack", k)
    /\ AddedBefore(MdCachePub, "addFront", k)

\* C22: every topic announcement and every update reaches the downstream
\* publishers of the proxy in the order of its fan-out list, those added with
\* addFront before those added with addBack; and whenever a back-attached
\* subscriber is notified of a topic or receives an update of it, the cache
\* attached in front already holds a record of that topic.
C22_FanOutOrder ==
    /\ \A k \in 1..Len(pubLog) :
           /\ Announces(k) =>
                  /\ Reached(k, "createEntry") = pubLog[k].publishers[MdProxy]
                  /\ FrontBeforeBack(k, "createEntry")
           /\ Updates(k) =>
                  /\ Reached(k, "publish") = pubLog[k].publishers[MdProxy]
                  /\ FrontBeforeBack(k, "publish")
    /\ \A k \in 1..Len(pubLog) :
           BackSubscriberTold(k) =>
               pubLog[k].topic \in DOMAIN pubLog[k].caches[MdCache]

\* An update reached the cache in front and then the subscribed strategy at
\* the back, and so did the announcement of a topic.
C22_Witness ==
    /\ \E k \in 1..Len(pubLog) :
           /\ Updates(k)
           /\ Reached(k, "publish") = <<MdCachePub, MdStrategyPub>>
           /\ \E i \in (k + 1)..GroupEnd(k) :
                  BackSubscriberTold(i) /\ pubLog[i].op = "update"
    /\ \E k \in 1..Len(pubLog) :
           /\ Announces(k)
           /\ Reached(k, "createEntry") = <<MdCachePub, MdStrategyPub>>
           /\ \E i \in (k + 1)..GroupEnd(k) :
                  BackSubscriberTold(i) /\ pubLog[i].op = "notify"

\* Publisher d was added to the proxy before the upstream publisher's first
\* call.
AttachedThroughout(d) ==
    \E j \in 1..Len(pubLog) :
        /\ pubLog[j].who = d
        /\ pubLog[j].op \in {"addFront", "addBack"}
        /\ \A i \in 1..(j - 1) : pubLog[i].who # MdPub

IsUpstreamEndOfBatch(k) ==
    pubLog[k].op = "endOfBatch" /\ pubLog[k].who = MdProxy

\* Where the batch that ends before the k-th call began
BatchStart(k) ==
    LET ends == {j \in 1..(k - 1) : IsUpstreamEndOfBatch(j)}
    IN IF ends = {} THEN 1 ELSE CHOOSE j \in ends : \A i \in ends : i <= j

IsPublishOf(e, c) == e.op = "publish" /\ e.who = c

\* The topics consumer c was asked to publish from the i-th to the j-th call
TopicsPublished(c, i, j) ==
    LET calls == SelectSeq(SubSeq(pubLog, i, j), LAMBDA e : IsPublishOf(e, c))
    IN [n \in 1..Len(calls) |-> calls[n].topic]

EndBatchCalls(d) ==
    Cardinality({k \in 1..Len(pubLog) :
        pubLog[k].op = "endBatch" /\ pubLog[k].who = d})

UpstreamBatches == Cardinality({k \in 1..Len(pubLog) : IsUpstreamEndOfBatch(k)})

\* C23: a downstream publisher attached to the proxy for the whole run is
\* asked to publish exactly the topics the upstream publisher publishes, in
\* the same order, batch by batch; each endOfBatch the proxy receives makes
\* exactly one endBatch call on every downstream publisher, in list order,
\* after the updates of that batch and before those of the next.
C23_StreamPreserved ==
    /\ \A d \in Downstream :
           AttachedThroughout(d) =>
               /\ \A k \in 1..(Len(pubLog) + 1) :
                      (k = Len(pubLog) + 1 \/ IsUpstreamEndOfBatch(k)) =>
                          TopicsPublished(d, BatchStart(k), k - 1)
                              = TopicsPublished(MdPub, BatchStart(k), k - 1)
               /\ EndBatchCalls(d) = UpstreamBatches
    /\ \A k \in 1..Len(pubLog) :
           IsUpstreamEndOfBatch(k) =>
               /\ Reached(k, "endBatch") = pubLog[k].publishers[MdProxy]
               /\ Reached(k, "publish") = <<>>

\* A publisher attached from the start saw a batch with an update and its
\* end, and an update of the next batch.
C23_Witness ==
    \E d \in Downstream, k \in 1..Len(pubLog) :
        /\ AttachedThroughout(d)
        /\ IsUpstreamEndOfBatch(k)
        /\ TopicsPublished(d, 1, k - 1) # <<>>
        /\ Reached(k, "endBatch") = <<d>>
        /\ TopicsPublished(d, k, Len(pubLog)) # <<>>

\* The step adds a publisher to the proxy.
AddStep ==
    /\ Len(pubLog') > Len(pubLog)
    /\ pubLog'[Len(pubLog) + 1].op \in {"addFront", "addBack"}

\* The list with d inserted where the call of kind op inserts it
Inserted(list, d, op) ==
    IF op = "addFront" THEN <<d>> \o list ELSE Append(list, d)

\* The notify calls of topic t the subscriber of consumer d got in the calls
\* logged after the k-th in log
NotifiedOf(log, k, d, t) ==
    {i \in (k + 1)..Len(log) :
        /\ log[i].op = "notify"
        /\ log[i].who = consumers[d].subscriber.name
        /\ log[i].topic = t}

AddedCorrectly(k, d, op) ==
    /\ proxies'[MdProxy].publishers
           = Inserted(proxies[MdProxy].publishers, d, op)
    /\ \A t \in DOMAIN proxies[MdProxy].entries :
           /\ t \in DOMAIN consumers'[d].entries
           /\ consumers'[d].entries[t].data
                  = <<proxies[MdProxy].entries[t].record>>
           /\ proxies'[MdProxy].entries[t].m_entries
                  = Inserted(proxies[MdProxy].entries[t].m_entries,
                             [consumer |-> d, topic |-> t], op)
           /\ Cardinality(NotifiedOf(pubLog', k, d, t)) = 1
    /\ \A t \in PubTopics \ DOMAIN proxies[MdProxy].entries :
           NotifiedOf(pubLog', k, d, t) = {}

\* Every update the upstream publisher publishes after publisher d was added
\* reaches d.
UpdatedAfterwards ==
    \A j, k \in 1..Len(pubLog) :
        (/\ j < k
         /\ pubLog[j].op \in {"addFront", "addBack"}
         /\ Updates(k)) =>
            \E i \in 1..Len(Reached(k, "publish")) :
                Reached(k, "publish")[i] = pubLog[j].who

\* C24: addFront(p) / addBack(p) inserts p at the beginning / end of the
\* fan-out list and of the entry list of every topic the proxy knows, creating
\* on p an entry bound to the record the proxy holds for the topic and
\* notifying p's subscriber once of each such topic and of no other; every
\* update published upstream afterwards reaches p.
C24_AddRetroactive ==
    /\ [][AddStep => AddedCorrectly(Len(pubLog) + 1,
                                    pubLog'[Len(pubLog) + 1].who,
                                    pubLog'[Len(pubLog) + 1].op)]_vars
    /\ []UpdatedAfterwards

\* A publisher was added to a proxy that knew two topics, was told of both,
\* and an update of one of them followed.
C24_Witness ==
    \E j, k \in 1..Len(pubLog) :
        /\ j < k
        /\ pubLog[j].op \in {"addFront", "addBack"}
        /\ Cardinality({i \in (j + 1)..GroupEnd(j) : pubLog[i].op = "notify"}) = 2
        /\ Updates(k)
        /\ pubLog[j].who \in {Reached(k, "publish")[i] :
                                 i \in 1..Len(Reached(k, "publish"))}

\* The topics the proxy knows
KnownTopics == DOMAIN proxies[MdProxy].entries

\* C34: after any sequence of Proxy notify, addFront and addBack calls, every
\* known topic holds exactly one downstream entry per publisher, and the i-th
\* entry of each topic belongs to the i-th publisher of the fan-out list: no
\* topic misses an entry for a publisher and none has a duplicate, also when
\* notify is repeated for a known topic.
C34_EntriesAlignedWithPublishers ==
    LET publishers == proxies[MdProxy].publishers
    IN \A t \in KnownTopics :
           LET entries == proxies[MdProxy].entries[t].m_entries
           IN /\ Len(entries) = Len(publishers)
              /\ \A i \in 1..Len(entries) :
                     /\ entries[i].consumer = publishers[i]
                     /\ entries[i].topic = t
                     /\ t \in DOMAIN consumers[publishers[i]].entries
              /\ \A i, j \in 1..Len(entries) :
                     i # j => entries[i].consumer # entries[j].consumer

\* C34 witness: the proxy knows two topics and has two publishers, one added
\* in front and one at the back, and it has been notified of a topic it knew.
C34_Witness ==
    /\ Cardinality(KnownTopics) = 2
    /\ Len(proxies[MdProxy].publishers) = 2
    /\ \E i, j \in 1..Len(pubLog) :
           pubLog[i].op = "addFront" /\ pubLog[j].op = "addBack"
    /\ \E i, j \in 1..Len(pubLog) :
           /\ i < j
           /\ pubLog[i].op = "notify" /\ pubLog[i].who = MdProxy
           /\ pubLog[j].op = "notify" /\ pubLog[j].who = MdProxy
           /\ pubLog[i].topic = pubLog[j].topic

----------------------------------------------------------------------------
(* Claims about the DirectConsumer (SpecPub) *)

\* The indices of pubLog after the last endBatch call on Dc before index k
SinceLastBatch(k) ==
    {i \in 1..(k - 1) :
        \A j \in i..(k - 1) : ~(pubLog[j].op = "endBatch" /\ pubLog[j].who = Dc)}

\* A callback installed by subscribe ran between the previous endBatch and k.
UpdateSince(k) ==
    \E i \in SinceLastBatch(k) : pubLog[i].op = "update"

\* C20: endBatch() delivers endOfBatch to the subscriber if and only if a
\* publish with a callback installed by subscribe occurred since the previous
\* endBatch(); publishes on entries never subscribed to cause no endOfBatch.
C20_EndOfBatchIffSubscribedPublish ==
    \A k \in 1..Len(pubLog) :
        (pubLog[k].op = "endBatch" /\ pubLog[k].who = Dc) =>
            (UpdateSince(k) <=>
                /\ k < Len(pubLog)
                /\ pubLog[k + 1].op = "endOfBatch"
                /\ pubLog[k + 1].who = Sub)

\* The log entry i records a subscribe call on topic t: one made from outside,
\* or the one the subscriber makes when it is notified of the topic.
SubscribesTo(i, t) ==
    /\ pubLog[i].topic = t
    /\ \/ pubLog[i].op = "subscribe"
       \/ pubLog[i].op = "notify" /\ pubLog[i].who \in subscribing

\* The callback that subscribe call passed
SubscribedCallback(i) ==
    IF pubLog[i].op = "subscribe"
    THEN pubLog[i].data
    ELSE <<UserCallback(pubLog[i].who)>>

\* The log entry i records a createEntry call on topic t
BindsRecord(i, t) ==
    pubLog[i].op = "createEntry" /\ pubLog[i].who = Dc /\ pubLog[i].topic = t

\* The greatest element of a non-empty set of indices
Latest(I) == CHOOSE i \in I : \A j \in I : j <= i

\* The publish logged at k made exactly one call, of cb with record rec.
DeliversOnce(k, cb, rec) ==
    /\ k < Len(pubLog)
    /\ pubLog[k + 1].op = "update"
    /\ pubLog[k + 1].who = cb[1].owner
    /\ pubLog[k + 1].topic = pubLog[k].topic
    /\ pubLog[k + 1].data = rec
    /\ k + 1 < Len(pubLog) => pubLog[k + 2].op # "update"

DeliversNothing(k) == k < Len(pubLog) => pubLog[k + 1].op # "update"

\* C32: for a DirectConsumer topic, subscribe replaces the entry's callback
\* and createEntry rebinds the entry's record without resetting its callback,
\* in either order: once both have happened, every publish() delivers exactly
\* one call of the most recently subscribed callback with the most recently
\* bound record, also when subscribe came before the first createEntry (an
\* empty callback, which cannot be called, is delivered nothing).
C32_SubscribeAndCreateEntry ==
    \A k \in 1..Len(pubLog) :
        (pubLog[k].op = "publish" /\ pubLog[k].who = Dc) =>
            LET t == pubLog[k].topic
                subs == {i \in 1..(k - 1) : SubscribesTo(i, t)}
                binds == {i \in 1..(k - 1) : BindsRecord(i, t)}
            IN (subs # {} /\ binds # {}) =>
                   IF SubscribedCallback(Latest(subs)) = NullPtr
                   THEN DeliversNothing(k)
                   ELSE DeliversOnce(k, SubscribedCallback(Latest(subs)),
                                     pubLog[Latest(binds)].data)

\* C32 witness: a topic was subscribed to before its first createEntry, then
\* bound to one record and to another, and subscribed to again with another
\* callback or published; the publish called the latest callback.
C32_Witness ==
    \E k \in 1..Len(pubLog) :
        /\ pubLog[k].op = "publish"
        /\ pubLog[k].who = Dc
        /\ LET t == pubLog[k].topic
               subs == {i \in 1..(k - 1) : SubscribesTo(i, t)}
               binds == {i \in 1..(k - 1) : BindsRecord(i, t)}
           IN /\ subs # {}
              /\ binds # {}
              /\ \E i \in subs : \A j \in binds : i < j
              /\ \/ Cardinality(binds) > 1
                 \/ Cardinality(subs) > 1
              /\ SubscribedCallback(Latest(subs)) # NullPtr
              /\ DeliversOnce(k, SubscribedCallback(Latest(subs)),
                              pubLog[Latest(binds)].data)

====
